---- MODULE Spec2Model ----
(***************************************************************************)
(* Revenue-intelligence backend: event ingestion and incremental account   *)
(* scoring (scoring.py, main.py, the /track variant in schemas.py), and    *)
(* the reporting functions that read what ingestion stored (analytics.py). *)
(*                                                                         *)
(* Scores are floats whose values are sums of the weights 10.0, 3.0, 1.5,  *)
(* 1.0, 2.0 and of halves of them; every such value is a multiple of 0.25  *)
(* and is exact in binary floating point.  The model counts scores in      *)
(* quarter points: Pt(w, q) is w + q/4.                                    *)
(***************************************************************************)
EXTENDS Integers, Sequences, FiniteSets, TLC

VARIABLES
    accounts,     \* table accounts: id -> row (models.Account)
    events,       \* table events, in insertion order (models.Event)
    anon_visits,  \* table anonymous_visits, in insertion order
    now,          \* datetime.utcnow(), a logical clock
    call,         \* the latest call of a scoring function: arguments and result
    response,     \* the HTTP response of the latest request
    sessions,     \* requests in flight: each one's position and loaded row
    tasks,        \* table tasks, in insertion order (models.Task)
    alerts,       \* table alerts, in insertion order (models.Alert)
    playbook_rules,       \* table playbook_rules (models.PlaybookRule)
    external_object_map   \* table external_object_map (models.ExternalObjectMap)

vars == <<accounts, events, anon_visits, now, call, response, sessions, tasks,
          alerts, playbook_rules, external_object_map>>

\* The tables that ingestion and the reports never write.
workflow == <<tasks, alerts, playbook_rules, external_object_map>>

----------------------------------------------------------------------------
(* Bounds of the model *)

MaxEvents == 2
MaxVisits == 1
\* the largest total score, in points, the classifier is tried on
MaxTotal == 90
\* the number of stored events the attribution report is tried on
MaxAttrEvents == 3
\* events of one account in the table segmentation counts
MaxSegEvents == 5
\* rows of the tasks table
MaxTasks == 2

----------------------------------------------------------------------------
(* Python values *)

\* Python's None and a present value; an optional field holds one of the two.
None == <<>>
Some(v) == <<v>>
Get(o) == o[1]

\* `x or 0.0` on an optional number.
OrZero(x) == IF x = None THEN 0 ELSE Get(x)

\* Truthiness of an optional string: None and "" are falsy.
TruthyStr(x) == x # None /\ Get(x) # ""

\* `a or b` on optional strings.
OrStr(a, b) == IF TruthyStr(a) THEN a ELSE b

\* w + q/4 points, in quarter points.
Pt(w, q) == 4 * w + q

\* str.lower() on the strings the model uses.
Lower(s) ==
    CASE s = "SignUp" -> "signup"
      [] s = "PageView" -> "pageview"
      [] s = "Email_Click" -> "email_click"
      [] s = "Buying" -> "buying"
      [] s = "US" -> "us"
      [] s = "Warm" -> "warm"
      [] OTHER -> s

----------------------------------------------------------------------------
(* scoring.py *)

_event_intent_weight(event) ==
    LET et == Lower(event.event_type)
    IN  IF et \in {"form_submit", "signup", "demo_request"} THEN Pt(10, 0)
        ELSE IF et \in {"pageview", "page_view"} THEN Pt(1, 2)
        ELSE IF et \in {"email_click"} THEN Pt(3, 0)
        ELSE Pt(1, 0)

_event_engagement_weight(event) ==
    IF event.duration # None /\ Get(event.duration) # 0 /\ Get(event.duration) > 120
        THEN Pt(3, 0)
    ELSE IF event.duration # None /\ Get(event.duration) # 0 /\ Get(event.duration) > 30
        THEN Pt(2, 0)
    ELSE Pt(1, 0)

\* The thresholds compared with > instead of >=.
_buyer_stage_strict(intent, engagement, total) ==
    LET score == total
    IN  IF score > Pt(80, 0) THEN "buying"
        ELSE IF score > Pt(50, 0) THEN "evaluating"
        ELSE IF score > Pt(25, 0) THEN "considering"
        ELSE IF score > Pt(10, 0) THEN "aware"
        ELSE "unaware"

_buyer_stage_from_scores(intent, engagement, total) ==
    LET score == total
    IN  IF score >= Pt(80, 0) THEN "buying"
        ELSE IF score >= Pt(50, 0) THEN "evaluating"
        ELSE IF score >= Pt(25, 0) THEN "considering"
        ELSE IF score >= Pt(10, 0) THEN "aware"
        ELSE "unaware"

ScoreTotals(intent, fit, engagement, predictive, total) ==
    [intent_score |-> intent, fit_score |-> fit, engagement_score |-> engagement,
     predictive_score |-> predictive, total_score |-> total]

\* Variants of score_event, each with one slip; Bases and Scored are shared.
Bases(acc) ==
    [intent |-> OrZero(acc.intent_score), engagement |-> OrZero(acc.engagement_score),
     fit |-> OrZero(acc.fit_score), predictive |-> OrZero(acc.predictive_score),
     total |-> OrZero(acc.total_score)]

Scored(ei, ee, intent, fit, engagement, predictive, total) ==
    [raised |-> "no", event_intent |-> ei, event_engagement |-> ee,
     totals |-> ScoreTotals(intent, fit, engagement, predictive, total)]

\* new_fit = 0.0 instead of base_fit
score_event_fit_reset(account, event) ==
    IF account = None THEN [raised |-> "AttributeError"]
    ELSE LET b == Bases(Get(account))
             ei == _event_intent_weight(event)
             ee == _event_engagement_weight(event)
             p == b.predictive + (ei + ee) \div 2
         IN  Scored(ei, ee, b.intent + ei, 0, b.engagement + ee, p,
                    (b.intent + ei) + (b.engagement + ee) + 0 + p)

\* new_total = base_total + the event's contributions instead of the sum of
\* the four new scores
score_event_total_from_base(account, event) ==
    IF account = None THEN [raised |-> "AttributeError"]
    ELSE LET b == Bases(Get(account))
             ei == _event_intent_weight(event)
             ee == _event_engagement_weight(event)
             p == b.predictive + (ei + ee) \div 2
         IN  Scored(ei, ee, b.intent + ei, b.fit, b.engagement + ee, p,
                    b.total + ei + ee + (ei + ee) \div 2)

\* a revenue bonus of 0.1 * value on intent and 0.05 * value on engagement,
\* without the clamp to >= 0
score_event_unclamped_revenue(account, event) ==
    IF account = None THEN [raised |-> "AttributeError"]
    ELSE LET b == Bases(Get(account))
             revenue == OrZero(event.value)
             ei == _event_intent_weight(event) + (4 * revenue) \div 10
             ee == _event_engagement_weight(event) + (4 * revenue) \div 20
             p == b.predictive + (ei + ee) \div 2
         IN  Scored(ei, ee, b.intent + ei, b.fit, b.engagement + ee, p,
                    (b.intent + ei) + (b.engagement + ee) + b.fit + p)

\* new_predictive = base_predictive + 0.5 * event_intent (engagement left out)
score_event_predictive_intent_only(account, event) ==
    IF account = None THEN [raised |-> "AttributeError"]
    ELSE LET b == Bases(Get(account))
             ei == _event_intent_weight(event)
             ee == _event_engagement_weight(event)
             p == b.predictive + ei \div 2
         IN  Scored(ei, ee, b.intent + ei, b.fit, b.engagement + ee, p,
                    (b.intent + ei) + (b.engagement + ee) + b.fit + p)

\* account is optional: reading a field of None raises AttributeError at the
\* function's first statement.
score_event(account, event) ==
    IF account = None THEN [raised |-> "AttributeError"]
    ELSE
    LET acc == Get(account)
        base_intent == OrZero(acc.intent_score)
        base_engagement == OrZero(acc.engagement_score)
        base_fit == OrZero(acc.fit_score)
        base_predictive == OrZero(acc.predictive_score)
        event_intent == _event_intent_weight(event)
        event_engagement == _event_engagement_weight(event)
        new_intent == base_intent + event_intent
        new_engagement == base_engagement + event_engagement
        new_fit == base_fit
        \* 0.5 * (a + b): a + b is an even number of quarter points
        new_predictive == base_predictive + (event_intent + event_engagement) \div 2
        new_total == new_intent + new_engagement + new_fit + new_predictive
    IN  [raised |-> "no",
         event_intent |-> event_intent,
         event_engagement |-> event_engagement,
         totals |-> ScoreTotals(new_intent, new_fit, new_engagement,
                                new_predictive, new_total)]

----------------------------------------------------------------------------
(* models.py *)

\* A row of accounts as create_account leaves it; fit_score is the slot of the
\* external fit model and the column is nullable.
Account(fit) ==
    [intent_score |-> Some(0), fit_score |-> fit, engagement_score |-> Some(0),
     predictive_score |-> Some(0), total_score |-> Some(0),
     buyer_stage |-> None, last_event_at |-> None, last_source |-> None]

\* Event(...): a transient object; what the constructor is not given is None.
Event(account_id, event_type, source, value, duration, event_metadata, created_at) ==
    [account_id |-> account_id, event_type |-> event_type, source |-> source,
     value |-> value, duration |-> duration, event_metadata |-> event_metadata,
     intent_score |-> None, engagement_score |-> None, created_at |-> created_at]

\* INSERT of an event: the column defaults fill what is still None.
InsertEvent(event, id) ==
    [event EXCEPT
        !.intent_score = IF @ = None THEN Some(0) ELSE @,
        !.engagement_score = IF @ = None THEN Some(0) ELSE @,
        !.created_at = IF @ = None THEN Some(now) ELSE @]
    @@ [id |-> id]

\* db.query(Account).filter(id, workspace).first()
QueryAccount(account_id) ==
    IF account_id # None /\ Get(account_id) \in DOMAIN accounts
        THEN Some(accounts[Get(account_id)])
        ELSE None

\* UPDATE at commit: the unit of work writes the attributes whose value differs
\* from the one the session loaded; the others keep what the row holds.
AccountFields ==
    {"intent_score", "fit_score", "engagement_score", "predictive_score",
     "total_score", "buyer_stage", "last_event_at", "last_source"}

UpdateRow(row, loaded, changed) ==
    [f \in AccountFields |-> IF changed[f] # loaded[f] THEN changed[f] ELSE row[f]]

----------------------------------------------------------------------------
(* Event metadata: the keys the program reads; a key that is absent is None *)

Metadata(channel, utm_source, utm_medium, revenue, is_conversion) ==
    [channel |-> channel, utm_source |-> utm_source, utm_medium |-> utm_medium,
     revenue |-> revenue, is_conversion |-> is_conversion]

\* {}
EmptyMetadata == Metadata(None, None, None, None, None)

\* `d or {}` on an optional metadata dict.
OrEmpty(d) == IF d = None THEN EmptyMetadata ELSE Get(d)

----------------------------------------------------------------------------
(* Requests *)

AccountIds == {"a1", "a2"}

\* An id no account has.
GhostId == "ghost"

\* totals written back onto the loaded account (the five assignments every
\* ingestion handler makes).
WithTotals(account, totals) ==
    [account EXCEPT
        !.intent_score = Some(totals.intent_score),
        !.fit_score = Some(totals.fit_score),
        !.engagement_score = Some(totals.engagement_score),
        !.predictive_score = Some(totals.predictive_score),
        !.total_score = Some(totals.total_score)]

WithBuyerStage(account) ==
    [account EXCEPT !.buyer_stage =
        Some(_buyer_stage_from_scores(Get(account.intent_score),
                                      Get(account.engagement_score),
                                      Get(account.total_score)))]

ScoreCall(account, event, out) ==
    Some([fn |-> "score_event", account |-> account, event |-> event, ret |-> out])

NotFound == Some([status |-> 404, detail |-> "Account not found"])
ServerError == Some([status |-> 500])

\* POST /accounts/{account_id}/events, from the scoring call to the commit,
\* on the account row the request loaded.  (Payloads carry no contact_id.)
create_event_commit(account_id, payload, account) ==
    LET event == Event(Some(account_id), payload.event_type, payload.source,
                       payload.value, payload.duration, payload.event_metadata, None)
        out == score_event(Some(account), event)
        scored == [event EXCEPT !.intent_score = Some(out.event_intent),
                                !.engagement_score = Some(out.event_engagement)]
        a1 == WithTotals(account, out.totals)
        a2 == [a1 EXCEPT !.last_event_at = scored.created_at,
                         !.last_source = OrStr(scored.source, account.last_source)]
        a3 == WithBuyerStage(a2)
        row == InsertEvent(scored, Len(events) + 1)
    IN  /\ Len(events) < MaxEvents
        /\ events' = Append(events, row)
        /\ accounts' = [accounts EXCEPT ![account_id] = UpdateRow(@, account, a3)]
        /\ now' = now + 1
        /\ call' = ScoreCall(Some(account), event, out)
        /\ response' = Some([status |-> 200, event |-> row])

create_event(account_id, payload) ==
    LET account == QueryAccount(Some(account_id))
    IN  /\ IF account = None
              THEN /\ response' = NotFound
                   /\ UNCHANGED <<accounts, events, now, call>>
              ELSE create_event_commit(account_id, payload, Get(account))
        /\ UNCHANGED <<anon_visits, sessions, workflow>>

\* POST /track of main.py, from the scoring call to the commit.  The visit row
\* is inserted first; resolve_ipinfo is the fallback that returns None.
track_commit(payload, account) ==
    LET metadata == OrEmpty(payload.metadata)
        event == Event(payload.account_id,
                       IF TruthyStr(payload.event_type) THEN Get(payload.event_type)
                                                        ELSE "pageview",
                       Some("website"), None, None, Some(metadata), None)
        out == score_event(Some(account), event)
        scored == [event EXCEPT !.intent_score = Some(out.event_intent),
                                !.engagement_score = Some(out.event_engagement)]
        a1 == WithBuyerStage(WithTotals(account, out.totals))
        a2 == [a1 EXCEPT !.last_event_at = scored.created_at,
                         !.last_source = OrStr(scored.source, account.last_source)]
        row == InsertEvent(scored, Len(events) + 1)
    IN  /\ Len(events) < MaxEvents
        /\ Len(anon_visits) < MaxVisits
        /\ anon_visits' = Append(anon_visits, [account_id |-> payload.account_id])
        /\ events' = Append(events, row)
        /\ accounts' = [accounts EXCEPT ![Get(payload.account_id)] = UpdateRow(@, account, a2)]
        /\ now' = now + 1
        /\ call' = ScoreCall(Some(account), event, out)
        /\ response' = Some([status |-> 200, event_id |-> Some(row.id)])

\* The request names no account, or one that does not exist: only the visit is
\* stored.  anonymous_visits.account_id is a foreign key: a database that
\* enforces it (PostgreSQL) rejects the commit, one that does not (SQLite's
\* default) stores the row.
track_visit_only(payload, fk_enforced) ==
    IF payload.account_id # None /\ fk_enforced
        THEN /\ response' = ServerError
             /\ UNCHANGED <<accounts, events, anon_visits, now, call>>
        ELSE /\ Len(anon_visits) < MaxVisits
             /\ anon_visits' = Append(anon_visits, [account_id |-> payload.account_id])
             /\ now' = now + 1
             /\ response' = Some([status |-> 200, event_id |-> None])
             /\ UNCHANGED <<accounts, events, call>>

track(payload, fk_enforced) ==
    LET account == IF TruthyStr(payload.account_id)
                      THEN QueryAccount(payload.account_id) ELSE None
    IN  /\ IF account = None
              THEN track_visit_only(payload, fk_enforced)
              ELSE track_commit(payload, Get(account))
        /\ UNCHANGED <<sessions, workflow>>

\* POST /track of the schemas.py variant.  The event is added to the session
\* before the scoring call; when that call raises, nothing is committed.
\* last_activity_at is no column of accounts: the assignment stores nothing.
track_event(payload) ==
    LET meta0 == OrEmpty(payload.metadata)
        meta == [meta0 EXCEPT
                    !.utm_source = IF TruthyStr(payload.utm_source)
                                      THEN payload.utm_source ELSE @,
                    !.utm_medium = IF TruthyStr(payload.utm_medium)
                                      THEN payload.utm_medium ELSE @]
        source == OrStr(payload.channel, OrStr(meta.utm_source, Some("web")))
        event == Event(payload.account_id, payload.event_type, source,
                       payload.revenue, None,
                       IF meta = EmptyMetadata THEN None ELSE Some(meta),
                       Some(now))
        account == IF TruthyStr(payload.account_id)
                      THEN QueryAccount(payload.account_id) ELSE None
        out == score_event(account, event)
    IN  /\ call' = ScoreCall(account, event, out)
        /\ IF out.raised # "no"
              THEN /\ response' = ServerError
                   /\ UNCHANGED <<accounts, events, now>>
              ELSE LET row == InsertEvent(event, Len(events) + 1)
                       a1 == WithTotals(Get(account), out.totals)
                   IN  /\ Len(events) < MaxEvents
                       /\ events' = Append(events, row)
                       /\ accounts' = [accounts EXCEPT ![Get(payload.account_id)] =
                                          UpdateRow(@, Get(account), a1)]
                       /\ now' = now + 1
                       /\ response' = Some([status |-> 200, event_id |-> row.id,
                                            account_totals |-> Some(out.totals)])
        /\ UNCHANGED <<anon_visits, sessions, workflow>>

----------------------------------------------------------------------------
(* Inputs of the ingestion specification *)

\* fit_score as the external fit model may have left it.
FitValues == {None, Some(0), Some(Pt(20, 0))}

EventCreate(event_type, source, value, duration) ==
    [event_type |-> event_type, source |-> source, value |-> value,
     duration |-> duration, event_metadata |-> None]

EventCreatePayloads ==
    { EventCreate("SignUp", None, None, None),
      EventCreate("pageview", Some("email"), Some(100), Some(45)),
      EventCreate("webinar", Some("ads"), Some(-50), Some(121)) }

RequestAccountIds == {None, Some(GhostId)} \cup {Some(a) : a \in AccountIds}

TrackPayload(account_id, event_type) ==
    [account_id |-> account_id, event_type |-> event_type, metadata |-> None]

TrackPayloads ==
    {TrackPayload(a, None) : a \in RequestAccountIds}
    \cup {TrackPayload(Some("a1"), Some("demo_request"))}

TrackEventPayloads ==
    { [account_id |-> a, event_type |-> "email_click", channel |-> None,
       utm_source |-> Some("newsletter"), utm_medium |-> None,
       revenue |-> Some(100), metadata |-> None] : a \in RequestAccountIds }

Idle == [r \in {"r1", "r2"} |-> [pc |-> "idle"]]

Init ==
    /\ accounts \in {[a \in AccountIds |-> Account(f)] : f \in FitValues}
    /\ events = <<>>
    /\ anon_visits = <<>>
    /\ tasks = <<>>
    /\ alerts = <<>>
    /\ playbook_rules = <<>>
    /\ external_object_map = <<>>
    /\ now = 1
    /\ call = None
    /\ response = None
    /\ sessions = Idle

Next ==
    \/ \E a \in AccountIds \cup {GhostId}, p \in EventCreatePayloads : create_event(a, p)
    \/ \E p \in TrackPayloads, fk \in BOOLEAN : track(p, fk)
    \/ \E p \in TrackEventPayloads : track_event(p)

Spec == Init /\ [][Next]_vars

----------------------------------------------------------------------------
(* Concurrent requests: each request has its own session (get_db); its     *)
(* handler reads the account row with one SELECT and writes at commit, and *)
(* nothing orders the two against the other request's.                     *)

Requests == DOMAIN Idle

Loaded(handler, payload, account_id, account) ==
    [pc |-> "loaded", handler |-> handler, payload |-> payload,
     account_id |-> account_id, account |-> account]

Done == [pc |-> "done"]

\* create_event up to the account query (a missing account ends the request)
create_event_begin(r, account_id, payload) ==
    LET account == QueryAccount(Some(account_id))
    IN  /\ sessions[r].pc = "idle"
        /\ IF account = None
              THEN /\ response' = NotFound
                   /\ sessions' = [sessions EXCEPT ![r] = Done]
              ELSE /\ sessions' = [sessions EXCEPT ![r] =
                                      Loaded("create_event", payload, account_id, Get(account))]
                   /\ UNCHANGED response
        /\ UNCHANGED <<accounts, events, anon_visits, now, call, workflow>>

\* create_event from the scoring call to the commit
create_event_end(r) ==
    /\ sessions[r].pc = "loaded"
    /\ sessions[r].handler = "create_event"
    /\ create_event_commit(sessions[r].account_id, sessions[r].payload, sessions[r].account)
    /\ sessions' = [sessions EXCEPT ![r] = Done]
    /\ UNCHANGED <<anon_visits, workflow>>

\* track up to the account query (with no account it commits the visit alone)
track_begin(r, payload, fk_enforced) ==
    LET account == IF TruthyStr(payload.account_id)
                      THEN QueryAccount(payload.account_id) ELSE None
    IN  /\ sessions[r].pc = "idle"
        /\ UNCHANGED workflow
        /\ IF account = None
              THEN /\ track_visit_only(payload, fk_enforced)
                   /\ sessions' = [sessions EXCEPT ![r] = Done]
              ELSE /\ sessions' = [sessions EXCEPT ![r] =
                                      Loaded("track", payload, Get(payload.account_id),
                                             Get(account))]
                   /\ UNCHANGED <<accounts, events, anon_visits, now, call, response>>

\* track from the scoring call to the commit
track_end(r) ==
    /\ sessions[r].pc = "loaded"
    /\ sessions[r].handler = "track"
    /\ track_commit(sessions[r].payload, sessions[r].account)
    /\ sessions' = [sessions EXCEPT ![r] = Done]
    /\ UNCHANGED workflow

ConcNext ==
    \/ \E r \in Requests, a \in AccountIds \cup {GhostId}, p \in EventCreatePayloads :
          create_event_begin(r, a, p)
    \/ \E r \in Requests : create_event_end(r)
    \/ \E r \in Requests, p \in TrackPayloads, fk \in BOOLEAN : track_begin(r, p, fk)
    \/ \E r \in Requests : track_end(r)

ConcSpec == Init /\ [][ConcNext]_vars

\* The accounts that had an event scored and stored.
HasEvent(a) == \E i \in 1..Len(events) : events[i].account_id = Some(a)

\* The sum of a stored field over the events of an account.
RECURSIVE SumEvents(_, _, _)
SumEvents(a, field, n) ==
    IF n = 0 THEN 0
    ELSE SumEvents(a, field, n - 1)
         + (IF events[n].account_id = Some(a) THEN Get(events[n][field]) ELSE 0)

\* C5 (as claimed): when the requests in flight have ended, every account's
\* scores include the contributions of all its stored events (no update is
\* lost): intent and engagement are the sums of the events' contributions,
\* predictive is half their sum and total is the sum of the four scores.
C5_NoLostUpdate ==
    (\A r \in Requests : sessions[r].pc = "done") =>
        \A a \in DOMAIN accounts :
            LET intent == SumEvents(a, "intent_score", Len(events))
                engagement == SumEvents(a, "engagement_score", Len(events))
            IN  /\ OrZero(accounts[a].intent_score) = intent
                /\ OrZero(accounts[a].engagement_score) = engagement
                /\ 2 * OrZero(accounts[a].predictive_score) = intent + engagement
                /\ HasEvent(a) =>
                     2 * Get(accounts[a].total_score) =
                         3 * (intent + engagement) + 2 * Get(accounts[a].fit_score)

----------------------------------------------------------------------------
(* The buyer-stage classifier on its own: any three scores, then the call *)

ClassifyCall(intent, engagement, total, ret) ==
    Some([fn |-> "_buyer_stage_from_scores",
          intent |-> intent, engagement |-> engagement, total |-> total, ret |-> ret])

ClassifyInit ==
    /\ accounts = [a \in AccountIds |-> Account(Some(0))]
    /\ events = <<>>
    /\ anon_visits = <<>>
    /\ tasks = <<>>
    /\ alerts = <<>>
    /\ playbook_rules = <<>>
    /\ external_object_map = <<>>
    /\ now = 1
    /\ response = None
    /\ sessions = Idle
    /\ call \in {ClassifyCall(i, e, t, None) :
                    i \in {0, Pt(100, 0)}, e \in {0, Pt(100, 0)},
                    t \in (0 - Pt(1, 0))..Pt(MaxTotal, 0)}

classify_stage ==
    /\ call # None
    /\ Get(call).fn = "_buyer_stage_from_scores"
    /\ Get(call).ret = None
    /\ call' = ClassifyCall(Get(call).intent, Get(call).engagement, Get(call).total,
                            Some(_buyer_stage_from_scores(Get(call).intent,
                                                          Get(call).engagement,
                                                          Get(call).total)))
    /\ UNCHANGED <<accounts, events, anon_visits, now, response, sessions, workflow>>

ClassifySpec == ClassifyInit /\ [][classify_stage]_vars

\* C7: the label is decided by total_score alone, by the non-overlapping
\* ranges >= 80 buying, [50, 80) evaluating, [25, 50) considering,
\* [10, 25) aware, < 10 unaware; every total has exactly one label.
C7_ClassifyThresholds ==
    (call # None /\ Get(call).fn = "_buyer_stage_from_scores" /\ Get(call).ret # None) =>
        LET total == Get(call).total
            label == Get(Get(call).ret)
        IN  /\ (label = "buying") <=> (total >= Pt(80, 0))
            /\ (label = "evaluating") <=> (Pt(50, 0) <= total /\ total < Pt(80, 0))
            /\ (label = "considering") <=> (Pt(25, 0) <= total /\ total < Pt(50, 0))
            /\ (label = "aware") <=> (Pt(10, 0) <= total /\ total < Pt(25, 0))
            /\ (label = "unaware") <=> (total < Pt(10, 0))

\* total 79.75 with intent 100: "evaluating", although the intent argument
\* alone is in the "buying" range
C7_Witness ==
    /\ call # None
    /\ Get(call).fn = "_buyer_stage_from_scores"
    /\ Get(call).total = Pt(79, 3)
    /\ Get(call).intent = Pt(100, 0)
    /\ Get(call).ret = Some("evaluating")

----------------------------------------------------------------------------
(* analytics.py: multi_touch_attribution *)
(*                                                                         *)
(* Revenue is counted in whole currency units and credit in 1/CreditUnit   *)
(* of a unit, CreditUnit = MaxAttrEvents!, so that revenue / len(path) is  *)
(* exact for every path the model builds (the code divides floats).        *)

RECURSIVE Factorial(_)
Factorial(n) == IF n <= 1 THEN 1 ELSE n * Factorial(n - 1)

CreditUnit == Factorial(MaxAttrEvents)

\* float(s) on the metadata strings the model uses; None is ValueError.
ParseFloat(s) ==
    CASE s = "50" -> Some(50)
      [] s = "120" -> Some(120)
      [] OTHER -> None

\* The resolution that also falls back to the UTM keys of the metadata.
get_channel_name_utm_fallback(ev) ==
    LET md == OrEmpty(ev.event_metadata)
        ch == OrStr(ev.source, OrStr(md.channel, OrStr(md.utm_source, md.utm_medium)))
    IN  Get(OrStr(ch, Some("unknown")))

get_channel_name(ev) ==
    LET md == OrEmpty(ev.event_metadata)
        ch == OrStr(ev.source, md.channel)
    IN  Get(OrStr(ch, Some("unknown")))

get_revenue(ev) ==
    LET md == OrEmpty(ev.event_metadata)
    IN  IF ev.value # None THEN Get(ev.value)
        ELSE IF md.revenue # None
            THEN (IF ParseFloat(Get(md.revenue)) = None THEN 0
                  ELSE Get(ParseFloat(Get(md.revenue))))
        ELSE 0

is_conversion(ev) ==
    LET md == OrEmpty(ev.event_metadata)
    IN  \/ md.is_conversion = Some(TRUE)
        \/ get_revenue(ev) > 0
        \/ ev.event_type \in {"booking", "purchase", "deal_closed",
                              "opportunity_won", "form_submit"}

\* ORDER BY account_id
AccountOrder == <<"a1", "a2">>

AccountRank(account_id) ==
    CHOOSE i \in 1..Len(AccountOrder) : AccountOrder[i] = Get(account_id)

\* The rows of the events query: created_at >= cutoff, the request's account
\* if it names one, ORDER BY account_id, created_at.  The database returns
\* rows with equal keys in any order: every such order is a result.
QueryEvents(cutoff, account_id) ==
    LET hit == {i \in 1..Len(events) :
                   /\ Get(events[i].created_at) >= cutoff
                   /\ TruthyStr(account_id) => events[i].account_id = account_id}
        n == Cardinality(hit)
        InOrder(e, f) ==
            \/ AccountRank(e.account_id) < AccountRank(f.account_id)
            \/ /\ AccountRank(e.account_id) = AccountRank(f.account_id)
               /\ Get(e.created_at) <= Get(f.created_at)
    IN  { [k \in 1..n |-> events[p[k]]] :
            p \in { q \in [1..n -> hit] :
                      /\ \A j, k \in 1..n : j # k => q[j] # q[k]
                      /\ \A j \in 1..n : j < n => InOrder(events[q[j]], events[q[j + 1]]) } }

AttributedChannel(channel) ==
    [channel |-> channel, first_touch_revenue |-> 0, last_touch_revenue |-> 0,
     linear_revenue |-> 0, conversions |-> 0]

\* channel_stats is a dict: its rows are kept in order of first insertion.
stat_for(channel_stats, channel_name) ==
    IF \E i \in 1..Len(channel_stats) : channel_stats[i].channel = channel_name
        THEN channel_stats
        ELSE Append(channel_stats, AttributedChannel(channel_name))

\* stat_for(channel_name).<field> += amount
AddTo(channel_stats, channel_name, field, amount) ==
    LET stats == stat_for(channel_stats, channel_name)
    IN  [i \in 1..Len(stats) |->
            IF stats[i].channel = channel_name
                THEN [stats[i] EXCEPT ![field] = @ + amount]
                ELSE stats[i]]

\* Linear attribution over the first n touches of the path.
RECURSIVE LinearCreditUpTo(_, _, _, _)
LinearCreditUpTo(channel_stats, revenue, path, n) ==
    IF n = 0 THEN channel_stats
    ELSE AddTo(LinearCreditUpTo(channel_stats, revenue, path, n - 1),
               path[n], "linear_revenue", (revenue * CreditUnit) \div Len(path))

\* One share per distinct channel of the path instead of one per touch.
LinearCreditPerChannel(channel_stats, revenue, path) ==
    LET first == {n \in 1..Len(path) : \A m \in 1..(n - 1) : path[m] # path[n]}
        once == SelectSeq([n \in 1..Len(path) |-> IF n \in first THEN path[n] ELSE ""],
                          LAMBDA c : c # "")
        RECURSIVE Go(_, _)
        Go(stats, n) ==
            IF n = 0 THEN stats
            ELSE AddTo(Go(stats, n - 1), once[n], "linear_revenue",
                       (revenue * CreditUnit) \div Len(path))
    IN  Go(channel_stats, Len(once))

LinearCredit(channel_stats, revenue, path) ==
    LinearCreditUpTo(channel_stats, revenue, path, Len(path))

\* The last-touch revenue added to first_touch_revenue (a copied line).
Credit_last_added_to_first(channel_stats, revenue, path) ==
    LET ft == AddTo(channel_stats, path[1], "first_touch_revenue", revenue * CreditUnit)
        lt == AddTo(ft, path[Len(path)], "first_touch_revenue", revenue * CreditUnit)
        lc == AddTo(lt, path[Len(path)], "conversions", 1)
    IN  LinearCredit(lc, revenue, path)

\* First touch taken from the end of the path.
Credit_first_from_end(channel_stats, revenue, path) ==
    LET ft == AddTo(channel_stats, path[Len(path)], "first_touch_revenue",
                    revenue * CreditUnit)
        lt == AddTo(ft, path[Len(path)], "last_touch_revenue", revenue * CreditUnit)
        lc == AddTo(lt, path[Len(path)], "conversions", 1)
    IN  LinearCredit(lc, revenue, path)

\* The conversion counted on the first-touch channel.
Credit_counted_on_first(channel_stats, revenue, path) ==
    LET ft == AddTo(channel_stats, path[1], "first_touch_revenue", revenue * CreditUnit)
        lt == AddTo(ft, path[Len(path)], "last_touch_revenue", revenue * CreditUnit)
        lc == AddTo(lt, path[1], "conversions", 1)
    IN  LinearCredit(lc, revenue, path)

\* The body of the loop for one conversion that has revenue and a path; path
\* is the sequence of the touches' channel names.
Credit(channel_stats, revenue, path) ==
    LET ft == AddTo(channel_stats, path[1], "first_touch_revenue", revenue * CreditUnit)
        lt == AddTo(ft, path[Len(path)], "last_touch_revenue", revenue * CreditUnit)
        lc == AddTo(lt, path[Len(path)], "conversions", 1)
    IN  LinearCredit(lc, revenue, path)

\* The conversions of one account that are credited, in loop order, each
\* with its revenue and the channels of its path.
AccountCredits(acc_events) ==
    LET touches == SelectSeq(acc_events, LAMBDA e : get_channel_name(e) # "unknown")
        PathOf(conv) ==
            SelectSeq(touches, LAMBDA e : Get(e.created_at) <= Get(conv.created_at))
        credited == SelectSeq(acc_events,
                        LAMBDA e : /\ is_conversion(e)
                                   /\ get_revenue(e) > 0
                                   /\ PathOf(e) # <<>>)
    IN  [k \in 1..Len(credited) |->
            [conversion |-> credited[k].id,
             revenue |-> get_revenue(credited[k]),
             path |-> [j \in 1..Len(PathOf(credited[k])) |->
                          get_channel_name(PathOf(credited[k])[j])]]]

\* All credited conversions: the accounts in the order of the query.
RECURSIVE CreditsUpTo(_, _)
CreditsUpTo(ordered, n) ==
    IF n = 0 THEN <<>>
    ELSE CreditsUpTo(ordered, n - 1)
         \o AccountCredits(SelectSeq(ordered,
                LAMBDA e : e.account_id = Some(AccountOrder[n])))

\* channel_stats after the first k credited conversions
RECURSIVE Attribute(_, _)
Attribute(credits, k) ==
    IF k = 0 THEN <<>>
    ELSE Credit(Attribute(credits, k - 1), credits[k].revenue, credits[k].path)

\* POST /analytics/attribution
multi_touch_attribution(req) ==
    \E ordered \in QueryEvents(now - req.lookback_days, req.account_id) :
        LET credits == CreditsUpTo(ordered, Len(AccountOrder))
        IN  /\ call' = Some([fn |-> "multi_touch_attribution", req |-> req,
                             ordered |-> ordered, credits |-> credits])
            /\ response' = Some([status |-> 200,
                                 channels |-> Attribute(credits, Len(credits))])
            /\ UNCHANGED <<accounts, events, anon_visits, now, sessions, workflow>>

\* Stored events the report is tried on: two touches by source, a conversion
\* with no channel, a conversion that is a touch, channel and revenue in the
\* metadata, and a conversion type with a utm_source alone and a revenue that
\* does not parse.
AttrShapes ==
    << [event_type |-> "pageview", source |-> Some("email"), value |-> None,
        event_metadata |-> None],
       [event_type |-> "pageview", source |-> Some("ads"), value |-> None,
        event_metadata |-> None],
       [event_type |-> "purchase", source |-> None, value |-> Some(100),
        event_metadata |-> None],
       [event_type |-> "purchase", source |-> Some("email"), value |-> Some(60),
        event_metadata |-> None],
       [event_type |-> "form_submit", source |-> None, value |-> None,
        event_metadata |-> Some(Metadata(Some("social"), None, None, Some("50"), None))],
       [event_type |-> "booking", source |-> None, value |-> None,
        event_metadata |->
            Some(Metadata(None, Some("newsletter"), None, Some("n/a"), None))] >>

AttrTimes == {1, 2}

\* An events row as ingestion stores it.
AttrRow(shape, account_id, created_at, id) ==
    InsertEvent(Event(Some(account_id), shape.event_type, shape.source, shape.value,
                      None, shape.event_metadata, Some(created_at)), id)

\* Rows are numbered by (created_at, account, shape); a table lists its rows
\* by non-decreasing number, so in the order they were created.
AttrKeys == AttrTimes \X (1..Len(AccountOrder)) \X (1..Len(AttrShapes))

KeyLeq(k, l) ==
    \/ k[1] < l[1]
    \/ k[1] = l[1] /\ k[2] < l[2]
    \/ k[1] = l[1] /\ k[2] = l[2] /\ k[3] <= l[3]

AttrTables ==
    UNION { { [i \in 1..n |-> AttrRow(AttrShapes[ks[i][3]], AccountOrder[ks[i][2]],
                                       ks[i][1], i)] :
                ks \in { s \in [1..n -> AttrKeys] :
                           \A i \in 1..n : i < n => KeyLeq(s[i], s[i + 1]) } } :
            n \in 0..MaxAttrEvents }

AttributionRequest(lookback_days, account_id) ==
    [lookback_days |-> lookback_days, account_id |-> account_id]

AttributionRequests ==
    { AttributionRequest(90, None), AttributionRequest(1, None),
      AttributionRequest(90, Some("a1")) }

AttrInit ==
    /\ accounts = [a \in AccountIds |-> Account(Some(0))]
    /\ events \in AttrTables
    /\ anon_visits = <<>>
    /\ tasks = <<>>
    /\ alerts = <<>>
    /\ playbook_rules = <<>>
    /\ external_object_map = <<>>
    /\ now = 3
    /\ call = None
    /\ response = None
    /\ sessions = Idle

\* The report reads the tables and writes nothing: a behaviour is one report
\* on one table, and every table with every request is tried.
AttrNext ==
    /\ response = None
    /\ \E req \in AttributionRequests : multi_touch_attribution(req)

AttrSpec == AttrInit /\ [][AttrNext]_vars

\* The latest call was the attribution report.
Attributed == call # None /\ Get(call).fn = "multi_touch_attribution"

RECURSIVE SumLinear(_, _)
SumLinear(channel_stats, n) ==
    IF n = 0 THEN 0
    ELSE SumLinear(channel_stats, n - 1) + channel_stats[n].linear_revenue

\* linear_revenue of a channel in channel_stats (0 when it has no row)
LinearOf(channel_stats, channel) ==
    IF \E i \in 1..Len(channel_stats) : channel_stats[i].channel = channel
        THEN channel_stats[CHOOSE i \in 1..Len(channel_stats) :
                               channel_stats[i].channel = channel].linear_revenue
        ELSE 0

\* C10: every conversion of the query with revenue R > 0 and a path of
\* N >= 1 touches is credited once; it adds to each channel's linear_revenue
\* R/N for each touch of the path on that channel (k touches: k shares), R in
\* all; the report returns the credits of all those conversions.
C10_LinearConservation ==
    Attributed =>
        LET credits == Get(call).credits
            ordered == Get(call).ordered
            HasPath(e) ==
                \E j \in 1..Len(ordered) :
                    /\ ordered[j].account_id = e.account_id
                    /\ get_channel_name(ordered[j]) # "unknown"
                    /\ Get(ordered[j].created_at) <= Get(e.created_at)
        IN  /\ Get(response).channels = Attribute(credits, Len(credits))
            /\ \A i \in 1..Len(ordered) :
                 (get_revenue(ordered[i]) > 0 /\ HasPath(ordered[i])) =>
                     Cardinality({k \in 1..Len(credits) :
                                     credits[k].conversion = ordered[i].id}) = 1
            /\ \A k \in 1..Len(credits) :
                 LET before == Attribute(credits, k - 1)
                     after == Attribute(credits, k)
                     R == credits[k].revenue
                     path == credits[k].path
                     N == Len(path)
                 IN  /\ R > 0
                     /\ N >= 1
                     /\ \A i \in 1..Len(after) :
                          N * (after[i].linear_revenue
                               - LinearOf(before, after[i].channel))
                            = Cardinality({j \in 1..N : path[j] = after[i].channel})
                              * R * CreditUnit
                     /\ SumLinear(after, Len(after)) - SumLinear(before, Len(before))
                            = R * CreditUnit

\* a conversion whose path is email, ads, email: email receives two of the
\* three shares
C10_Witness ==
    /\ Attributed
    /\ \E k \in 1..Len(Get(call).credits) :
         /\ Get(call).credits[k].path = <<"email", "ads", "email">>
         /\ Get(call).credits[k].revenue = 60
    /\ \E i \in 1..Len(Get(response).channels) :
         /\ Get(response).channels[i].channel = "email"
         /\ Get(response).channels[i].linear_revenue = 40 * CreditUnit

\* Sum of a field over the first n rows of channel_stats.
RECURSIVE SumStat(_, _, _)
SumStat(channel_stats, field, n) ==
    IF n = 0 THEN 0
    ELSE SumStat(channel_stats, field, n - 1) + channel_stats[n][field]

\* A field of a channel's row in channel_stats (0 when it has no row).
StatOf(channel_stats, channel, field) ==
    IF \E i \in 1..Len(channel_stats) : channel_stats[i].channel = channel
        THEN channel_stats[CHOOSE i \in 1..Len(channel_stats) :
                               channel_stats[i].channel = channel][field]
        ELSE 0

\* The positions in the query's rows of the touches of conv's account at or
\* before conv, under a channel resolution.
PathPositions(ordered, conv, Channel(_)) ==
    {j \in 1..Len(ordered) :
        /\ ordered[j].account_id = conv.account_id
        /\ Channel(ordered[j]) # "unknown"
        /\ Get(ordered[j].created_at) <= Get(conv.created_at)}

\* Sum of the revenue of the rows of the query at the positions counted,
\* among the first n.
RECURSIVE RevenueOf(_, _, _)
RevenueOf(ordered, n, counted) ==
    IF n = 0 THEN 0
    ELSE RevenueOf(ordered, n - 1, counted)
         + (IF n \in counted THEN get_revenue(ordered[n]) ELSE 0)

\* The row of the query that is the k-th credited conversion.
ConversionOf(k) ==
    LET ordered == Get(call).ordered
    IN  ordered[CHOOSE i \in 1..Len(ordered) :
                    ordered[i].id = Get(call).credits[k].conversion]

\* C11 as stated: the first-touch total and the last-touch total of the report
\* each equal the sum of the revenue of all conversion events of the window.
C11_TotalsAllConversions ==
    Attributed =>
        LET channels == Get(response).channels
            ordered == Get(call).ordered
            total == RevenueOf(ordered, Len(ordered),
                               {i \in 1..Len(ordered) : is_conversion(ordered[i])})
        IN  /\ SumStat(channels, "first_touch_revenue", Len(channels)) = total * CreditUnit
            /\ SumStat(channels, "last_touch_revenue", Len(channels)) = total * CreditUnit

\* C11 amended: the first-touch total and the last-touch total each equal the
\* sum of the revenue of the conversions of the window that have revenue > 0
\* and a touch of their account at or before them; every such conversion
\* adds its revenue once to each total, a conversion with no such touch adds
\* nothing.
C11_TotalsCreditedConversions ==
    Attributed =>
        LET channels == Get(response).channels
            ordered == Get(call).ordered
            credits == Get(call).credits
            Creditable(e) ==
                /\ is_conversion(e)
                /\ get_revenue(e) > 0
                /\ PathPositions(ordered, e, get_channel_name) # {}
            total == RevenueOf(ordered, Len(ordered),
                               {i \in 1..Len(ordered) : Creditable(ordered[i])})
        IN  /\ SumStat(channels, "first_touch_revenue", Len(channels)) = total * CreditUnit
            /\ SumStat(channels, "last_touch_revenue", Len(channels)) = total * CreditUnit
            /\ \A k \in 1..Len(credits) :
                 LET before == Attribute(credits, k - 1)
                     after == Attribute(credits, k)
                 IN  /\ SumStat(after, "first_touch_revenue", Len(after))
                          - SumStat(before, "first_touch_revenue", Len(before))
                            = credits[k].revenue * CreditUnit
                     /\ SumStat(after, "last_touch_revenue", Len(after))
                          - SumStat(before, "last_touch_revenue", Len(before))
                            = credits[k].revenue * CreditUnit

\* a conversion of 100 with no touch before it is skipped while a conversion
\* of 60 that is its own touch is credited: both totals are 60
C11_Witness ==
    /\ Attributed
    /\ \E i \in 1..Len(Get(call).ordered) :
         /\ get_revenue(Get(call).ordered[i]) = 100
         /\ PathPositions(Get(call).ordered, Get(call).ordered[i], get_channel_name) = {}
    /\ Len(Get(call).credits) = 1
    /\ Get(call).credits[1].revenue = 60
    /\ SumStat(Get(response).channels, "first_touch_revenue",
               Len(Get(response).channels)) = 60 * CreditUnit
    /\ SumStat(Get(response).channels, "last_touch_revenue",
               Len(Get(response).channels)) = 60 * CreditUnit

\* C12: for every credited conversion (revenue R > 0, non-empty path) the
\* first-touch credit R goes to the channel of an event of the path that no
\* event of the path precedes in created_at, and to no other channel.
C12_FirstTouch ==
    Attributed =>
        LET credits == Get(call).credits
            ordered == Get(call).ordered
        IN  \A k \in 1..Len(credits) :
                LET before == Attribute(credits, k - 1)
                    after == Attribute(credits, k)
                    P == PathPositions(ordered, ConversionOf(k), get_channel_name)
                    earliest == {j \in P : \A m \in P :
                                    Get(ordered[j].created_at) <= Get(ordered[m].created_at)}
                IN  \E j \in earliest :
                        /\ \E i \in 1..Len(after) :
                               after[i].channel = get_channel_name(ordered[j])
                        /\ \A i \in 1..Len(after) :
                               after[i].first_touch_revenue
                                 - StatOf(before, after[i].channel, "first_touch_revenue")
                               = IF after[i].channel = get_channel_name(ordered[j])
                                    THEN credits[k].revenue * CreditUnit ELSE 0

\* the path [email, ads] with R = 100: email gets first_touch_revenue 100 and
\* ads none
C12_Witness ==
    /\ Attributed
    /\ Len(Get(call).credits) = 1
    /\ Get(call).credits[1].path = <<"email", "ads">>
    /\ Get(call).credits[1].revenue = 100
    /\ StatOf(Get(response).channels, "email", "first_touch_revenue") = 100 * CreditUnit
    /\ StatOf(Get(response).channels, "ads", "first_touch_revenue") = 0

\* C13: for every credited conversion the last-touch credit R goes to the
\* channel of an event of the path (created_at <= the conversion's) that no
\* event of the path follows in created_at, that channel's conversions grows
\* by 1, and no other channel's last_touch_revenue or conversions changes.
C13_LastTouch ==
    Attributed =>
        LET credits == Get(call).credits
            ordered == Get(call).ordered
        IN  \A k \in 1..Len(credits) :
                LET before == Attribute(credits, k - 1)
                    after == Attribute(credits, k)
                    P == PathPositions(ordered, ConversionOf(k), get_channel_name)
                    latest == {j \in P : \A m \in P :
                                  Get(ordered[m].created_at) <= Get(ordered[j].created_at)}
                IN  \E j \in latest :
                        /\ \E i \in 1..Len(after) :
                               after[i].channel = get_channel_name(ordered[j])
                        /\ \A i \in 1..Len(after) :
                             LET hit == after[i].channel = get_channel_name(ordered[j])
                             IN  /\ after[i].last_touch_revenue
                                      - StatOf(before, after[i].channel, "last_touch_revenue")
                                    = IF hit THEN credits[k].revenue * CreditUnit ELSE 0
                                 /\ after[i].conversions
                                      - StatOf(before, after[i].channel, "conversions")
                                    = IF hit THEN 1 ELSE 0

\* the path [email, ads] with R = 100: ads gets last_touch_revenue 100 and the
\* conversion, email neither
C13_Witness ==
    /\ Attributed
    /\ Len(Get(call).credits) = 1
    /\ Get(call).credits[1].path = <<"email", "ads">>
    /\ StatOf(Get(response).channels, "ads", "last_touch_revenue") = 100 * CreditUnit
    /\ StatOf(Get(response).channels, "ads", "conversions") = 1
    /\ StatOf(Get(response).channels, "email", "last_touch_revenue") = 0
    /\ StatOf(Get(response).channels, "email", "conversions") = 0

\* C14: the rows of the report are in descending order of linear_revenue
\* (rows with equal linear_revenue in the order their channels were first
\* encountered, which is the order of channel_stats).
C14_SortedByLinearRevenue ==
    Attributed =>
        LET channels == Get(response).channels
            stats == Attribute(Get(call).credits, Len(Get(call).credits))
            Encounter(c) == CHOOSE i \in 1..Len(stats) : stats[i].channel = c
        IN  \A i, j \in 1..Len(channels) :
                i < j =>
                    \/ channels[i].linear_revenue > channels[j].linear_revenue
                    \/ /\ channels[i].linear_revenue = channels[j].linear_revenue
                       /\ Encounter(channels[i].channel) < Encounter(channels[j].channel)

\* C15 as stated: an event's channel is its source, else the first that is
\* set of metadata channel, utm_source, utm_medium, else "unknown"; every
\* conversion with revenue > 0 is credited on the path of the events that
\* resolve to a name this way, and no "unknown" is credited.
C15_ChannelFallbackChain ==
    Attributed =>
        LET credits == Get(call).credits
            ordered == Get(call).ordered
            Resolved(e) ==
                LET md == IF e.event_metadata = None THEN EmptyMetadata
                          ELSE Get(e.event_metadata)
                IN  IF TruthyStr(e.source) THEN Get(e.source)
                    ELSE IF TruthyStr(md.channel) THEN Get(md.channel)
                    ELSE IF TruthyStr(md.utm_source) THEN Get(md.utm_source)
                    ELSE IF TruthyStr(md.utm_medium) THEN Get(md.utm_medium)
                    ELSE "unknown"
        IN  /\ \A i \in 1..Len(ordered) :
                 LET P == PathPositions(ordered, ordered[i], Resolved)
                 IN  (get_revenue(ordered[i]) > 0 /\ P # {}) =>
                        \E k \in 1..Len(credits) :
                            /\ credits[k].conversion = ordered[i].id
                            /\ Len(credits[k].path) = Cardinality(P)
                            /\ \A j \in P : \E n \in 1..Len(credits[k].path) :
                                   credits[k].path[n] = Resolved(ordered[j])
            /\ \A k \in 1..Len(credits) : \A n \in 1..Len(credits[k].path) :
                 credits[k].path[n] # "unknown"

\* C15 amended: an event's channel is its source when set, else its metadata
\* channel when set, else "unknown" (utm_source and utm_medium are not read);
\* every conversion with revenue > 0 is credited on the path of the events
\* that resolve to a name this way, an event that resolves to "unknown" is on
\* no path and "unknown" has no row in the report.
C15_ChannelSourceThenMetadata ==
    Attributed =>
        LET credits == Get(call).credits
            ordered == Get(call).ordered
            channels == Get(response).channels
            Resolved(e) ==
                LET md == IF e.event_metadata = None THEN EmptyMetadata
                          ELSE Get(e.event_metadata)
                IN  IF TruthyStr(e.source) THEN Get(e.source)
                    ELSE IF TruthyStr(md.channel) THEN Get(md.channel)
                    ELSE "unknown"
        IN  /\ \A i \in 1..Len(ordered) :
                 LET P == PathPositions(ordered, ordered[i], Resolved)
                     hits == {k \in 1..Len(credits) :
                                 credits[k].conversion = ordered[i].id}
                 IN  IF get_revenue(ordered[i]) > 0 /\ P # {}
                        THEN \E k \in hits :
                                /\ hits = {k}
                                /\ Len(credits[k].path) = Cardinality(P)
                                /\ \A j \in P : \E n \in 1..Len(credits[k].path) :
                                       credits[k].path[n] = Resolved(ordered[j])
                        ELSE hits = {}
            /\ \A k \in 1..Len(credits) : \A n \in 1..Len(credits[k].path) :
                 credits[k].path[n] # "unknown"
            /\ \A i \in 1..Len(channels) : channels[i].channel # "unknown"

\* a booking that carries only utm_source comes before a conversion of its
\* account that is credited on the path [social] (a metadata channel): the
\* booking is on no path
C15_Witness ==
    /\ Attributed
    /\ \E i \in 1..Len(Get(call).ordered) :
         LET e == Get(call).ordered[i]
         IN  /\ e.event_type = "booking"
             /\ e.source = None
             /\ Get(e.event_metadata).utm_source = Some("newsletter")
             /\ \E k \in 1..Len(Get(call).credits) :
                    /\ ConversionOf(k).account_id = e.account_id
                    /\ Get(e.created_at) <= Get(ConversionOf(k).created_at)
                    /\ Get(call).credits[k].path = <<"social">>

----------------------------------------------------------------------------
(* analytics.py: segment_accounts *)
(*                                                                         *)
(* The clock counts whole days here: (now - last_seen).days is now minus   *)
(* last_event_at.                                                          *)

\* get_workspace_id()
DEFAULT_WORKSPACE_ID == "default"

SegmentFilter(industries, stages, min_visits, max_inactive_days) ==
    [industries |-> industries, stages |-> stages, min_visits |-> min_visits,
     max_inactive_days |-> max_inactive_days]

\* acc_q: the accounts of the workspace, narrowed by the industry and the
\* stage lists that are not empty (IN is never true of a NULL column).
SegmentQuery(workspace_id, filters) ==
    {a \in DOMAIN accounts :
        /\ accounts[a].workspace_id = workspace_id
        /\ filters.industries # {} =>
              /\ accounts[a].industry # None
              /\ Get(accounts[a].industry) \in filters.industries
        /\ filters.stages # {} =>
              /\ accounts[a].stage # None
              /\ Get(accounts[a].stage) \in filters.stages}

\* ev_counts.get(acc_id, 0)
EventCount(workspace_id, acc_id) ==
    Cardinality({i \in 1..Len(events) :
                    /\ events[i].workspace_id = workspace_id
                    /\ events[i].account_id = Some(acc_id)})

\* The account is skipped when it has a timestamp, so that an account that
\* fails a filter falls through to the buckets as one without activity.
Bucket_filtered_to_dormant(workspace_id, filters, acc_id) ==
    LET total_visits == EventCount(workspace_id, acc_id)
        last_seen == accounts[acc_id].last_event_at
    IN  IF /\ filters.min_visits # None
           /\ total_visits < Get(filters.min_visits)
            THEN "Dormant"
        ELSE IF /\ filters.max_inactive_days # None
                /\ last_seen # None
                /\ now - Get(last_seen) > Get(filters.max_inactive_days)
            THEN "Dormant"
        ELSE IF total_visits >= 5 /\ last_seen # None /\ now - Get(last_seen) <= 7
            THEN "Active_high_intent"
        ELSE IF last_seen = None \/ now - Get(last_seen) > 30
            THEN "Dormant"
        ELSE "Low_intent"

\* The score variant of the first bucket: total_score >= 70 and activity
\* within 30 days.
Bucket_by_total_score(workspace_id, filters, acc_id) ==
    LET total_visits == EventCount(workspace_id, acc_id)
        last_seen == accounts[acc_id].last_event_at
    IN  IF /\ filters.min_visits # None
           /\ total_visits < Get(filters.min_visits)
            THEN "continue"
        ELSE IF /\ filters.max_inactive_days # None
                /\ last_seen # None
                /\ now - Get(last_seen) > Get(filters.max_inactive_days)
            THEN "continue"
        ELSE IF /\ OrZero(accounts[acc_id].total_score) >= Pt(70, 0)
                /\ last_seen # None /\ now - Get(last_seen) <= 30
            THEN "Active_high_intent"
        ELSE IF last_seen = None \/ now - Get(last_seen) > 30
            THEN "Dormant"
        ELSE "Low_intent"

\* The last two buckets tested with `if last_seen and ...`: an account with
\* no timestamp reaches no bucket.
Bucket_needs_timestamp(workspace_id, filters, acc_id) ==
    LET total_visits == EventCount(workspace_id, acc_id)
        last_seen == accounts[acc_id].last_event_at
    IN  IF /\ filters.min_visits # None
           /\ total_visits < Get(filters.min_visits)
            THEN "continue"
        ELSE IF /\ filters.max_inactive_days # None
                /\ last_seen # None
                /\ now - Get(last_seen) > Get(filters.max_inactive_days)
            THEN "continue"
        ELSE IF total_visits >= 5 /\ last_seen # None /\ now - Get(last_seen) <= 7
            THEN "Active_high_intent"
        ELSE IF last_seen # None /\ now - Get(last_seen) > 30
            THEN "Dormant"
        ELSE IF last_seen # None
            THEN "Low_intent"
        ELSE "continue"

\* max_inactive_days tested without `last_seen is not None`: an account with
\* no timestamp counts as inactive for ever and is skipped.
Bucket_null_last_seen_excluded(workspace_id, filters, acc_id) ==
    LET total_visits == EventCount(workspace_id, acc_id)
        last_seen == accounts[acc_id].last_event_at
    IN  IF /\ filters.min_visits # None
           /\ total_visits < Get(filters.min_visits)
            THEN "continue"
        ELSE IF /\ filters.max_inactive_days # None
                /\ (last_seen = None
                      \/ now - Get(last_seen) > Get(filters.max_inactive_days))
            THEN "continue"
        ELSE IF total_visits >= 5 /\ last_seen # None /\ now - Get(last_seen) <= 7
            THEN "Active_high_intent"
        ELSE IF last_seen = None \/ now - Get(last_seen) > 30
            THEN "Dormant"
        ELSE "Low_intent"

\* The body of the loop over the accounts: the list the account is appended
\* to, or "continue".
Bucket(workspace_id, filters, acc_id) ==
    LET total_visits == EventCount(workspace_id, acc_id)
        last_seen == accounts[acc_id].last_event_at
    IN  IF /\ filters.min_visits # None
           /\ total_visits < Get(filters.min_visits)
            THEN "continue"
        ELSE IF /\ filters.max_inactive_days # None
                /\ last_seen # None
                /\ now - Get(last_seen) > Get(filters.max_inactive_days)
            THEN "continue"
        ELSE IF total_visits >= 5 /\ last_seen # None /\ now - Get(last_seen) <= 7
            THEN "Active_high_intent"
        ELSE IF last_seen = None \/ now - Get(last_seen) > 30
            THEN "Dormant"
        ELSE "Low_intent"

Segment(segment_name, account_ids) ==
    [segment_name |-> segment_name, account_ids |-> account_ids]

\* The three lists after the loop over the rows of acc_q, and the segments
\* of the lists that are not empty.
Segments(workspace_id, filters, rows) ==
    LET ListOf(name) ==
            SelectSeq(rows, LAMBDA a : Bucket(workspace_id, filters, a) = name)
    IN  SelectSeq(<< Segment("Active_high_intent", ListOf("Active_high_intent")),
                     Segment("Low_intent", ListOf("Low_intent")),
                     Segment("Dormant", ListOf("Dormant")) >>,
                  LAMBDA g : g.account_ids # <<>>)

\* POST /analytics/segments.  acc_q has no ORDER BY: the database returns the
\* accounts in any order.
segment_accounts(req) ==
    LET workspace_id == DEFAULT_WORKSPACE_ID
        hit == SegmentQuery(workspace_id, req.filters)
        n == Cardinality(hit)
    IN  \E rows \in {q \in [1..n -> hit] : \A j, k \in 1..n : j # k => q[j] # q[k]} :
            /\ call' = Some([fn |-> "segment_accounts", req |-> req, rows |-> rows])
            /\ response' = Some([status |-> 200,
                                 segments |-> Segments(workspace_id, req.filters, rows)])
            /\ UNCHANGED <<accounts, events, anon_visits, now, sessions, workflow>>

\* The day of the report and the days of last activity the accounts are
\* tried with: 5, 7, 8, 30 and 31 days before it.
SegToday == 40

SegLastSeen == {None} \cup {Some(SegToday - d) : d \in {5, 7, 8, 30, 31}}

\* industry, pipeline stage and workspace of the accounts tried
SegProfiles ==
    { [industry |-> Some("saas"), stage |-> Some("cold"), workspace_id |-> "default"],
      [industry |-> None, stage |-> Some("warm"), workspace_id |-> "default"],
      [industry |-> Some("saas"), stage |-> Some("warm"), workspace_id |-> "other"] }

\* An accounts row with the columns segmentation reads.
SegAccount(profile, total_score, last_event_at) ==
    [Account(Some(0)) EXCEPT !.total_score = Some(total_score),
                             !.last_event_at = last_event_at]
    @@ profile

\* n stored page views of an account
SegEvents(acc_id, n) ==
    [i \in 1..n |->
        AttrRow([event_type |-> "pageview", source |-> Some("website"),
                 value |-> None, event_metadata |-> None], acc_id, 1, i)
        @@ [workspace_id |-> accounts[acc_id].workspace_id]]

SegmentationRequest(filters) == [filters |-> filters]

SegmentationRequests ==
    { SegmentationRequest(SegmentFilter({}, {}, None, None)),
      SegmentationRequest(SegmentFilter({}, {}, Some(5), None)),
      SegmentationRequest(SegmentFilter({}, {}, None, Some(7))),
      SegmentationRequest(SegmentFilter({}, {}, None, Some(0))),
      SegmentationRequest(SegmentFilter({}, {}, Some(1), Some(0))),
      SegmentationRequest(SegmentFilter({"saas"}, {}, None, None)),
      SegmentationRequest(SegmentFilter({}, {"warm"}, None, None)) }

SegInit ==
    /\ accounts \in
         { [a \in AccountIds |-> IF a = "a1" THEN r1 ELSE r2] :
             r1 \in { SegAccount(p, t, l) :
                        p \in SegProfiles, t \in {0, Pt(72, 0)}, l \in SegLastSeen },
             r2 \in { SegAccount(p, 0, l) : p \in SegProfiles, l \in SegLastSeen } }
    /\ events \in { SegEvents("a1", n1) \o SegEvents("a2", n2) :
                      n1 \in 0..MaxSegEvents, n2 \in {0, MaxSegEvents} }
    /\ anon_visits = <<>>
    /\ tasks = <<>>
    /\ alerts = <<>>
    /\ playbook_rules = <<>>
    /\ external_object_map = <<>>
    /\ now = SegToday
    /\ call = None
    /\ response = None
    /\ sessions = Idle

\* The report writes nothing: a behaviour is one report on one database.
SegNext ==
    /\ response = None
    /\ \E req \in SegmentationRequests : segment_accounts(req)

SegSpec == SegInit /\ [][SegNext]_vars

\* The latest call was the segmentation report.
Segmented == call # None /\ Get(call).fn = "segment_accounts"

\* The ids listed in the returned segment of that name (none when no such
\* segment is returned).
SegmentIds(name) ==
    LET segments == Get(response).segments
    IN  UNION { {segments[i].account_ids[j] : j \in 1..Len(segments[i].account_ids)} :
                  i \in {k \in 1..Len(segments) : segments[k].segment_name = name} }

SegmentNames == {"Active_high_intent", "Low_intent", "Dormant"}

Unfiltered == Get(call).req.filters = SegmentFilter({}, {}, None, None)

\* C16: with no filter set, the returned segments are among
\* Active_high_intent, Low_intent, Dormant, none is empty or returned twice,
\* no account is listed twice, the lists are pairwise disjoint and together
\* they hold exactly the accounts of the workspace.
C16_ExactlyOneSegment ==
    (Segmented /\ Unfiltered) =>
        LET segments == Get(response).segments
        IN  /\ \A i \in 1..Len(segments) :
                 /\ segments[i].segment_name \in SegmentNames
                 /\ segments[i].account_ids # <<>>
                 /\ \A j \in 1..Len(segments) :
                      segments[j].segment_name = segments[i].segment_name => j = i
                 /\ \A j, k \in 1..Len(segments[i].account_ids) :
                      segments[i].account_ids[j] = segments[i].account_ids[k] => j = k
            /\ \A m, n \in SegmentNames : m # n => SegmentIds(m) \cap SegmentIds(n) = {}
            /\ UNION {SegmentIds(m) : m \in SegmentNames}
                 = {a \in DOMAIN accounts : accounts[a].workspace_id = DEFAULT_WORKSPACE_ID}

\* an unfiltered report on two accounts of the workspace, one recently active
\* with five events and one never seen
C16_Witness ==
    /\ Segmented
    /\ Unfiltered
    /\ SegmentIds("Active_high_intent") = {"a1"}
    /\ SegmentIds("Dormant") = {"a2"}
    /\ accounts["a2"].last_event_at = None

\* The accounts of the workspace with total_score 72 and last activity five
\* days before the report.
Score72FiveDaysAgo ==
    {a \in DOMAIN accounts :
        /\ accounts[a].workspace_id = DEFAULT_WORKSPACE_ID
        /\ accounts[a].total_score = Some(Pt(72, 0))
        /\ accounts[a].last_event_at = Some(now - 5)}

\* C17 as stated: an account with total_score = 72 and last activity 5 days
\* ago is in Active_high_intent (of the unfiltered report).
C17_Score72IsActive ==
    (Segmented /\ Unfiltered) =>
        \A a \in Score72FiveDaysAgo : a \in SegmentIds("Active_high_intent")

\* C17 amended: an account with total_score = 72 and last activity 5 days
\* ago that passes the filters is in Active_high_intent alone when it has at
\* least 5 events and in Low_intent alone when it has fewer; it is never in
\* Dormant.
C17_Score72ByVisits ==
    Segmented =>
        \A a \in Score72FiveDaysAgo :
            LET filters == Get(call).req.filters
                visits == Cardinality({i \in 1..Len(events) :
                                          events[i].account_id = Some(a)})
                passes ==
                    /\ filters.industries # {} =>
                          accounts[a].industry \in {Some(x) : x \in filters.industries}
                    /\ filters.stages # {} =>
                          accounts[a].stage \in {Some(x) : x \in filters.stages}
                    /\ filters.min_visits # None => visits >= Get(filters.min_visits)
                    /\ filters.max_inactive_days # None =>
                          5 <= Get(filters.max_inactive_days)
                in == {m \in SegmentNames : a \in SegmentIds(m)}
            IN  in = IF ~passes THEN {}
                     ELSE IF visits >= 5 THEN {"Active_high_intent"}
                     ELSE {"Low_intent"}

\* the account has four events: the unfiltered report lists it in Low_intent
C17_Witness ==
    /\ Segmented
    /\ Unfiltered
    /\ "a1" \in Score72FiveDaysAgo
    /\ Cardinality({i \in 1..Len(events) : events[i].account_id = Some("a1")}) = 4
    /\ SegmentIds("Low_intent") = {"a1"}

\* C18: an account of the workspace that fails a filter of the request (fewer
\* events than min_visits, a last activity more than max_inactive_days ago,
\* an industry or a stage outside a requested list) is in no returned
\* segment.
C18_FilteredOut ==
    Segmented =>
        \A a \in DOMAIN accounts :
            LET filters == Get(call).req.filters
                visits == Cardinality({i \in 1..Len(events) :
                                          events[i].account_id = Some(a)})
                last_seen == accounts[a].last_event_at
                fails ==
                    \/ filters.min_visits # None /\ visits < Get(filters.min_visits)
                    \/ /\ filters.max_inactive_days # None
                       /\ last_seen # None
                       /\ now - Get(last_seen) > Get(filters.max_inactive_days)
                    \/ /\ filters.industries # {}
                       /\ accounts[a].industry \notin {Some(x) : x \in filters.industries}
                    \/ /\ filters.stages # {}
                       /\ accounts[a].stage \notin {Some(x) : x \in filters.stages}
            IN  fails => \A m \in SegmentNames : a \notin SegmentIds(m)

\* min_visits = 5 leaves out an account with no event and no timestamp, which
\* the unfiltered report would list in Dormant, while the other account is
\* returned
C18_Witness ==
    /\ Segmented
    /\ Get(call).req.filters.min_visits = Some(5)
    /\ accounts["a1"].workspace_id = DEFAULT_WORKSPACE_ID
    /\ accounts["a1"].last_event_at = None
    /\ \A i \in 1..Len(events) : events[i].account_id # Some("a1")
    /\ \A m \in SegmentNames : "a1" \notin SegmentIds(m)
    /\ "a2" \in SegmentIds("Dormant")

\* C30: an account of the workspace with no last_event_at that the accounts
\* query returns and that has at least min_visits events is listed in
\* Dormant and in no other segment, whatever max_inactive_days is (not set,
\* 0 or 7 days).
C30_NeverSeenIsDormant ==
    Segmented =>
        \A a \in DOMAIN accounts :
            LET filters == Get(call).req.filters
                visits == Cardinality({i \in 1..Len(events) :
                                          events[i].account_id = Some(a)})
                queried ==
                    /\ accounts[a].workspace_id = DEFAULT_WORKSPACE_ID
                    /\ filters.industries # {} =>
                          accounts[a].industry \in {Some(x) : x \in filters.industries}
                    /\ filters.stages # {} =>
                          accounts[a].stage \in {Some(x) : x \in filters.stages}
            IN  ( /\ queried
                  /\ accounts[a].last_event_at = None
                  /\ filters.min_visits # None => visits >= Get(filters.min_visits) )
                => {m \in SegmentNames : a \in SegmentIds(m)} = {"Dormant"}

\* max_inactive_days = 0 and min_visits = 1: the account has an event but no
\* timestamp and is returned in Dormant, while the other account, last seen
\* five days before, is skipped
C30_Witness ==
    /\ Segmented
    /\ Get(call).req.filters.max_inactive_days = Some(0)
    /\ Get(call).req.filters.min_visits = Some(1)
    /\ accounts["a1"].workspace_id = DEFAULT_WORKSPACE_ID
    /\ accounts["a1"].last_event_at = None
    /\ \E i \in 1..Len(events) : events[i].account_id = Some("a1")
    /\ SegmentIds("Dormant") = {"a1"}
    /\ accounts["a2"].workspace_id = DEFAULT_WORKSPACE_ID
    /\ accounts["a2"].last_event_at = Some(now - 5)

----------------------------------------------------------------------------
(* main.py: _account_matches_rule *)

\* The conditions of a playbook_rules row; the three lists are JSON columns
\* (a list, here the set of its elements, or NULL).
PlaybookRule(min_total_score, min_intent_score, buyer_stage_in, countries_in, stages_in, has_open_tasks) ==
    [min_total_score |-> min_total_score, min_intent_score |-> min_intent_score,
     buyer_stage_in |-> buyer_stage_in, countries_in |-> countries_in,
     stages_in |-> stages_in, has_open_tasks |-> has_open_tasks]

\* A tasks row.
Task(workspace_id, account_id, status) ==
    [workspace_id |-> workspace_id, account_id |-> account_id, status |-> status]

\* `if rule.<list>:` is false of NULL and of the empty list.
TruthyList(l) == l # None /\ Get(l) # {}

\* (value or "").lower() in {s.lower() for s in list}
LowerIn(value, list) ==
    LET v == IF TruthyStr(value) THEN Lower(Get(value)) ELSE ""
    IN  v \in {Lower(x) : x \in Get(list)}

\* The count of the account's tasks whose status is not "done".
OpenTaskCount(account) ==
    Cardinality({i \in 1..Len(tasks) :
                    /\ tasks[i].workspace_id = account.workspace_id
                    /\ tasks[i].account_id = account.id
                    /\ tasks[i].status # "done"})

\* The lists tested with `is not None`: an empty list is a condition that
\* no account meets.
_account_matches_rule_empty_list_specified(account, rule) ==
    IF /\ rule.min_total_score # None
       /\ OrZero(account.total_score) < Get(rule.min_total_score)
        THEN FALSE
    ELSE IF /\ rule.min_intent_score # None
            /\ OrZero(account.intent_score) < Get(rule.min_intent_score)
        THEN FALSE
    ELSE IF rule.buyer_stage_in # None /\ ~LowerIn(account.buyer_stage, rule.buyer_stage_in)
        THEN FALSE
    ELSE IF rule.countries_in # None /\ ~LowerIn(account.country, rule.countries_in)
        THEN FALSE
    ELSE IF rule.stages_in # None /\ ~LowerIn(account.stage, rule.stages_in)
        THEN FALSE
    ELSE IF /\ rule.has_open_tasks # None
            /\ (OpenTaskCount(account) > 0) # Get(rule.has_open_tasks)
        THEN FALSE
    ELSE TRUE

_account_matches_rule(account, rule) ==
    IF /\ rule.min_total_score # None
       /\ OrZero(account.total_score) < Get(rule.min_total_score)
        THEN FALSE
    ELSE IF /\ rule.min_intent_score # None
            /\ OrZero(account.intent_score) < Get(rule.min_intent_score)
        THEN FALSE
    ELSE IF TruthyList(rule.buyer_stage_in)
            /\ ~LowerIn(account.buyer_stage, rule.buyer_stage_in)
        THEN FALSE
    ELSE IF TruthyList(rule.countries_in) /\ ~LowerIn(account.country, rule.countries_in)
        THEN FALSE
    ELSE IF TruthyList(rule.stages_in) /\ ~LowerIn(account.stage, rule.stages_in)
        THEN FALSE
    ELSE IF /\ rule.has_open_tasks # None
            /\ (OpenTaskCount(account) > 0) # Get(rule.has_open_tasks)
        THEN FALSE
    ELSE TRUE

MatchCall(account, rule, ret) ==
    Some([fn |-> "_account_matches_rule", account |-> account, rule |-> rule,
          ret |-> ret])

\* The rules the matcher is tried with: each condition unset or set, the
\* buyer-stage list also empty, the country list also of the empty string.
PlaybookRules ==
    { PlaybookRule(t, i, b, c, g, h) :
        t \in {None, Some(Pt(50, 0))},
        i \in {None, Some(Pt(10, 0))},
        b \in {None, Some({}), Some({"Buying", "evaluating"})},
        c \in {None, Some({"US"}), Some({""})},
        g \in {None, Some({"Warm"})},
        h \in {None, Some(TRUE), Some(FALSE)} }

\* An accounts row with the columns the matcher reads.
PlaybookAccount(id, total_score, intent_score, buyer_stage, country, stage) ==
    [Account(Some(0)) EXCEPT !.total_score = total_score,
                             !.intent_score = Some(intent_score),
                             !.buyer_stage = buyer_stage]
    @@ [id |-> id, workspace_id |-> DEFAULT_WORKSPACE_ID, country |-> country,
        stage |-> stage]

PlaybookAccounts ==
    { PlaybookAccount("a1", t, i, b, c, g) :
        t \in {None, Some(Pt(49, 3)), Some(Pt(50, 0))},
        i \in {0, Pt(10, 0)},
        b \in {None, Some("buying"), Some("aware")},
        c \in {None, Some("us")},
        g \in {Some("warm"), Some("cold")} }

\* The kinds of tasks rows, and the tables of at most MaxTasks rows (listed
\* by kind: the count does not depend on the order of the rows).
TaskKinds ==
    << Task(DEFAULT_WORKSPACE_ID, "a1", "open"),
       Task(DEFAULT_WORKSPACE_ID, "a1", "done"),
       Task(DEFAULT_WORKSPACE_ID, "a2", "in_progress") >>

TaskTables ==
    UNION { { [i \in 1..n |-> TaskKinds[ks[i]]] :
                ks \in { q \in [1..n -> 1..Len(TaskKinds)] :
                           \A i \in 1..n : i < n => q[i] <= q[i + 1] } } :
            n \in 0..MaxTasks }

PlaybookInit ==
    /\ accounts \in { [a \in AccountIds |->
                          IF a = "a1" THEN r
                          ELSE PlaybookAccount(a, Some(0), 0, None, None, None)] :
                        r \in PlaybookAccounts }
    /\ events = <<>>
    /\ anon_visits = <<>>
    /\ tasks \in TaskTables
    /\ alerts = <<>>
    /\ playbook_rules = <<>>
    /\ external_object_map = <<>>
    /\ now = 1
    /\ response = None
    /\ sessions = Idle
    /\ call \in {MatchCall(Some(accounts["a1"]), rule, None) : rule \in PlaybookRules}

\* One call of the matcher on the account and the rule drawn.
match_rule ==
    /\ call # None
    /\ Get(call).fn = "_account_matches_rule"
    /\ Get(call).ret = None
    /\ call' = MatchCall(Get(call).account, Get(call).rule,
                         Some(_account_matches_rule(Get(Get(call).account),
                                                    Get(call).rule)))
    /\ UNCHANGED <<accounts, events, anon_visits, now, response, sessions, workflow>>

PlaybookSpec == PlaybookInit /\ [][match_rule]_vars

\* The matcher returned.
Matched == call # None /\ Get(call).fn = "_account_matches_rule" /\ Get(call).ret # None

\* the account has a task that is not done
HasOpenTask(account) ==
    \E i \in 1..Len(tasks) :
        /\ tasks[i].account_id = account.id
        /\ tasks[i].workspace_id = account.workspace_id
        /\ tasks[i].status # "done"

\* value (the empty string when null) is, letter case aside, one of the
\* strings of the list
MemberNoCase(value, list) ==
    \E x \in Get(list) : Lower(x) = (IF value = None THEN "" ELSE Lower(Get(value)))

\* C20 as stated: the matcher returns true exactly when every condition of
\* the rule that is not null holds for the account; a rule with all
\* conditions null matches.
C20_MatchesNonNullConditions ==
    Matched =>
        LET account == Get(Get(call).account)
            rule == Get(call).rule
            holds ==
                /\ rule.min_total_score # None =>
                      OrZero(account.total_score) >= Get(rule.min_total_score)
                /\ rule.min_intent_score # None =>
                      OrZero(account.intent_score) >= Get(rule.min_intent_score)
                /\ rule.buyer_stage_in # None =>
                      MemberNoCase(account.buyer_stage, rule.buyer_stage_in)
                /\ rule.countries_in # None =>
                      MemberNoCase(account.country, rule.countries_in)
                /\ rule.stages_in # None => MemberNoCase(account.stage, rule.stages_in)
                /\ rule.has_open_tasks # None =>
                      Get(rule.has_open_tasks) = HasOpenTask(account)
        IN  Get(Get(call).ret) = holds

\* C20 amended: the matcher returns true exactly when every specified
\* condition of the rule holds for the account, where a score threshold and
\* has_open_tasks are specified when not null and a list (buyer_stage_in,
\* countries_in, stages_in) when not null and not empty, a null score counts
\* as 0 and a null buyer_stage, country or stage as the empty string; a rule
\* with all conditions null matches.
C20_MatchesSpecifiedConditions ==
    Matched =>
        LET account == Get(Get(call).account)
            rule == Get(call).rule
            Specified(l) == l # None /\ Get(l) # {}
            holds ==
                /\ rule.min_total_score # None =>
                      OrZero(account.total_score) >= Get(rule.min_total_score)
                /\ rule.min_intent_score # None =>
                      OrZero(account.intent_score) >= Get(rule.min_intent_score)
                /\ Specified(rule.buyer_stage_in) =>
                      MemberNoCase(account.buyer_stage, rule.buyer_stage_in)
                /\ Specified(rule.countries_in) =>
                      MemberNoCase(account.country, rule.countries_in)
                /\ Specified(rule.stages_in) =>
                      MemberNoCase(account.stage, rule.stages_in)
                /\ rule.has_open_tasks # None =>
                      Get(rule.has_open_tasks) = HasOpenTask(account)
        IN  /\ Get(Get(call).ret) = holds
            /\ rule = PlaybookRule(None, None, None, None, None, None) =>
                  Get(Get(call).ret) = TRUE

\* a rule with every condition set, its lists in another letter case than
\* the account's values, matches an account that meets them all
C20_Witness ==
    /\ Matched
    /\ Get(call).rule = PlaybookRule(Some(Pt(50, 0)), Some(Pt(10, 0)),
                                     Some({"Buying", "evaluating"}), Some({"US"}),
                                     Some({"Warm"}), Some(TRUE))
    /\ Get(Get(call).account).buyer_stage = Some("buying")
    /\ Get(call).ret = Some(TRUE)

----------------------------------------------------------------------------
(* main.py: the playbook engines *)

MaxRules == 2
MaxAlerts == 2

\* A playbook_rules row: its conditions, and the columns the engine reads.
StoredRule(id, workspace_id, is_active, conditions, create_task, create_alert) ==
    conditions @@ [id |-> id, workspace_id |-> workspace_id, is_active |-> is_active,
                   create_task |-> create_task, create_alert |-> create_alert]

\* Every rule of the account's workspace, active or not.
ActiveRules_unfiltered(account) ==
    {k \in 1..Len(playbook_rules) :
        playbook_rules[k].workspace_id = account.workspace_id}

\* The rules query: workspace_id == account.workspace_id and is_active == True
\* (a NULL is_active is not selected).
ActiveRules(account) ==
    {k \in 1..Len(playbook_rules) :
        /\ playbook_rules[k].workspace_id = account.workspace_id
        /\ playbook_rules[k].is_active = Some(TRUE)}

\* The objects of a pass are added to the session: `rule` names the rule an
\* object was created for (the source keeps it in the alert's default title),
\* status is filled by the column default at INSERT.
RuleTask(account, rule) ==
    [kind |-> "task",
     row |-> Task(account.workspace_id, account.id, "open")
             @@ [source |-> "playbook", rule |-> Some(rule.id)]]

RuleAlert(account, rule) ==
    [kind |-> "alert",
     row |-> [workspace_id |-> account.workspace_id, account_id |-> account.id,
              type |-> "playbook", severity |-> "medium", rule |-> Some(rule.id)]]

\* The rows of the objects of one kind among those added to the session.
RowsOf(pending, kind) ==
    LET objs == SelectSeq(pending, LAMBDA o : o.kind = kind)
    IN  [i \in 1..Len(objs) |-> objs[i].row]

\* A session that flushes before each query: the count sees the tasks added
\* earlier in the pass.
QueryTasks_autoflush(pending) == tasks \o RowsOf(pending, "task")

\* The rows the open-task count reads.  The session is made with
\* autoflush=False: the objects added earlier in the pass are not flushed
\* before the query, which sees the stored rows alone.
QueryTasks(pending) == tasks

\* _account_matches_rule as called within a pass, `pending` being the objects
\* the pass has added so far (has_open_tasks is the last condition tested).
MatchesInPass(account, rule, pending) ==
    LET rows == QueryTasks(pending)
        open_count == Cardinality({i \in 1..Len(rows) :
                                      /\ rows[i].workspace_id = account.workspace_id
                                      /\ rows[i].account_id = account.id
                                      /\ rows[i].status # "done"})
    IN  /\ _account_matches_rule(account, [rule EXCEPT !.has_open_tasks = None])
        /\ rule.has_open_tasks # None => (open_count > 0) = Get(rule.has_open_tasks)

\* The loop over the first k rules of the query's result: the objects added.
RECURSIVE RunRules(_, _, _)
RunRules(account, rules, k) ==
    IF k = 0 THEN <<>>
    ELSE LET before == RunRules(account, rules, k - 1)
             rule == playbook_rules[rules[k]]
         IN  IF ~MatchesInPass(account, rule, before) THEN before
             ELSE before
                  \o (IF rule.create_task THEN <<RuleTask(account, rule)>> ELSE <<>>)
                  \o (IF rule.create_alert THEN <<RuleAlert(account, rule)>> ELSE <<>>)

PassCall(account, rules, pending) ==
    Some([fn |-> "run_playbooks_for_account", account |-> account, rules |-> rules,
          pending |-> pending])

\* The rule engine on one account.  The query has no ORDER BY: the rules come
\* in any order.  The function adds to the session and does not commit: its
\* caller persists the objects (committed) or ends the session without.
run_playbooks_for_account(account_id, committed) ==
    LET account == accounts[account_id]
        hit == ActiveRules(account)
        n == Cardinality(hit)
    IN  \E rules \in {q \in [1..n -> hit] : \A j, k \in 1..n : j # k => q[j] # q[k]} :
            LET pending == RunRules(account, rules, n)
            IN  /\ call' = PassCall(account, rules, pending)
                /\ response' = None
                /\ tasks' = IF committed THEN tasks \o RowsOf(pending, "task") ELSE tasks
                /\ alerts' = IF committed THEN alerts \o RowsOf(pending, "alert")
                                          ELSE alerts
                /\ Len(tasks') <= MaxTasks
                /\ Len(alerts') <= MaxAlerts
                /\ UNCHANGED <<accounts, events, anon_visits, now, sessions,
                               playbook_rules, external_object_map>>

\* The demo engine: the objects it adds and commits, and the two counts.
evaluate_playbooks_for_account(account) ==
    LET total == OrZero(account.total_score)
        intent == OrZero(account.intent_score)
        alert == [kind |-> "alert",
                  row |-> [workspace_id |-> account.workspace_id,
                           account_id |-> account.id, type |-> "high_intent",
                           severity |-> "high", rule |-> None]]
        task == [kind |-> "task",
                 row |-> Task(account.workspace_id, account.id, "open")
                         @@ [source |-> "playbook_high_intent", rule |-> None]]
    IN  IF total >= 0 \/ intent >= 0
           THEN [pending |-> <<alert, task>>, created_tasks |-> 1, created_alerts |-> 1]
           ELSE [pending |-> <<>>, created_tasks |-> 0, created_alerts |-> 0]

\* POST /accounts/{account_id}/run-playbooks.  The handler is also named
\* run_playbooks_for_account; defined after the rule engine, it calls the demo
\* engine.
run_playbooks_for_account_route(account_id) ==
    LET account == QueryAccount(Some(account_id))
    IN  /\ call' = Some([fn |-> "run_playbooks", account_id |-> account_id])
        /\ IF account = None
              THEN /\ response' = NotFound
                   /\ UNCHANGED <<tasks, alerts>>
              ELSE LET out == evaluate_playbooks_for_account(Get(account))
                   IN  /\ tasks' = tasks \o RowsOf(out.pending, "task")
                       /\ alerts' = alerts \o RowsOf(out.pending, "alert")
                       /\ Len(tasks') <= MaxTasks
                       /\ Len(alerts') <= MaxAlerts
                       /\ response' = Some([status |-> 200, account_id |-> account_id,
                                            created_tasks |-> out.created_tasks,
                                            created_alerts |-> out.created_alerts])
        /\ UNCHANGED <<accounts, events, anon_visits, now, sessions,
                       playbook_rules, external_object_map>>

NoCondition == PlaybookRule(None, None, None, None, None, None)

\* The kinds of rules the tables are made of: by workspace, is_active (true,
\* false, NULL), has_open_tasks and actions (the other conditions are tried
\* on the matcher alone).
RuleKinds ==
    << [workspace_id |-> DEFAULT_WORKSPACE_ID, is_active |-> Some(TRUE),
        conditions |-> NoCondition, create_task |-> TRUE, create_alert |-> TRUE],
       [workspace_id |-> DEFAULT_WORKSPACE_ID, is_active |-> Some(TRUE),
        conditions |-> [NoCondition EXCEPT !.has_open_tasks = Some(FALSE)],
        create_task |-> TRUE, create_alert |-> FALSE],
       [workspace_id |-> DEFAULT_WORKSPACE_ID, is_active |-> Some(TRUE),
        conditions |-> [NoCondition EXCEPT !.has_open_tasks = Some(TRUE)],
        create_task |-> FALSE, create_alert |-> TRUE],
       [workspace_id |-> DEFAULT_WORKSPACE_ID, is_active |-> Some(FALSE),
        conditions |-> NoCondition, create_task |-> TRUE, create_alert |-> TRUE],
       [workspace_id |-> DEFAULT_WORKSPACE_ID, is_active |-> None,
        conditions |-> NoCondition, create_task |-> TRUE, create_alert |-> FALSE],
       [workspace_id |-> "other", is_active |-> Some(TRUE),
        conditions |-> NoCondition, create_task |-> TRUE, create_alert |-> FALSE] >>

\* The playbook_rules tables of at most MaxRules rows; a row's id is its
\* position.
RuleTables ==
    UNION { { [k \in 1..n |->
                 StoredRule(k, RuleKinds[ks[k]].workspace_id, RuleKinds[ks[k]].is_active,
                            RuleKinds[ks[k]].conditions, RuleKinds[ks[k]].create_task,
                            RuleKinds[ks[k]].create_alert)] :
                ks \in [1..n -> 1..Len(RuleKinds)] } :
            n \in 0..MaxRules }

RuleInit ==
    /\ accounts = [a \in AccountIds |->
                      PlaybookAccount(a, Some(Pt(50, 0)), 0, None, None, None)]
    /\ events = <<>>
    /\ anon_visits = <<>>
    /\ tasks = <<>>
    /\ alerts = <<>>
    /\ playbook_rules \in RuleTables
    /\ external_object_map = <<>>
    /\ now = 1
    /\ call = None
    /\ response = None
    /\ sessions = Idle

RuleNext ==
    \/ \E a \in AccountIds, committed \in BOOLEAN : run_playbooks_for_account(a, committed)
    \/ \E a \in AccountIds \cup {GhostId} : run_playbooks_for_account_route(a)

RuleSpec == RuleInit /\ [][RuleNext]_vars

\* The latest call was a pass of the rule engine.
Passed == call # None /\ Get(call).fn = "run_playbooks_for_account"

\* The number of objects of a kind among `pending` created for a rule.
EmittedFor(pending, kind, id) ==
    Cardinality({i \in 1..Len(pending) :
                    pending[i].kind = kind /\ pending[i].row.rule = Some(id)})

\* C21: every task and every alert created for a rule, stored or added to
\* the session by the latest pass, was created for a rule whose is_active is
\* true.
C21_InactiveRuleNeverFires ==
    LET Active(row) ==
            row.rule # None =>
                /\ Get(row.rule) \in 1..Len(playbook_rules)
                /\ playbook_rules[Get(row.rule)].is_active = Some(TRUE)
    IN  /\ \A i \in 1..Len(tasks) : Active(tasks[i])
        /\ \A i \in 1..Len(alerts) : Active(alerts[i])
        /\ Passed => \A i \in 1..Len(Get(call).pending) :
                        Active(Get(call).pending[i].row)

\* two passes ran on a table that holds an active and an inactive rule of the
\* workspace, both without conditions: the stored rows are the active rule's
C21_Witness ==
    /\ Passed
    /\ Len(playbook_rules) = 2
    /\ playbook_rules[1].is_active = Some(FALSE)
    /\ playbook_rules[1].has_open_tasks = None
    /\ playbook_rules[1].create_task
    /\ playbook_rules[2].is_active = Some(TRUE)
    /\ Len(tasks) = 2
    /\ \A i \in 1..Len(tasks) : tasks[i].rule = Some(2)

\* C22: the objects a pass adds to the session are, for each rule of the
\* table, one task when the rule is an active rule of the account's
\* workspace that matches the account as it was stored before the pass and
\* has create_task, and one alert likewise with create_alert; no other
\* object is added.
C22_RulesIndependent ==
    [][(call' # None /\ Get(call').fn = "run_playbooks_for_account") =>
          LET account == Get(call').account
              pending == Get(call').pending
          IN  /\ \A k \in 1..Len(playbook_rules) :
                   LET rule == playbook_rules[k]
                       fires == /\ rule.workspace_id = account.workspace_id
                                /\ rule.is_active = Some(TRUE)
                                /\ _account_matches_rule(account, rule)
                   IN  /\ EmittedFor(pending, "task", k)
                            = IF fires /\ rule.create_task THEN 1 ELSE 0
                       /\ EmittedFor(pending, "alert", k)
                            = IF fires /\ rule.create_alert THEN 1 ELSE 0
              /\ \A i \in 1..Len(pending) :
                   /\ pending[i].row.rule # None
                   /\ Get(pending[i].row.rule) \in 1..Len(playbook_rules)]_vars

\* a pass on an account without tasks in which the first rule created a task
\* and the second rule, which requires that the account has no open task,
\* matched as well
C22_Witness ==
    /\ Passed
    /\ Get(call).rules = <<1, 2>>
    /\ playbook_rules[2].has_open_tasks = Some(FALSE)
    /\ EmittedFor(Get(call).pending, "task", 1) = 1
    /\ EmittedFor(Get(call).pending, "task", 2) = 1
    /\ Len(tasks) = 2

\* C28 (as claimed): when the workspace has no active rule, the run-playbooks
\* request of an existing account reports created_tasks = 0 and
\* created_alerts = 0 and no task or alert is stored.
C28_RunCreatesOnlyForMatchingRules ==
    ( /\ call # None
      /\ Get(call).fn = "run_playbooks"
      /\ Get(response).status = 200
      /\ \A k \in 1..Len(playbook_rules) :
            ~ ( /\ playbook_rules[k].workspace_id = DEFAULT_WORKSPACE_ID
                /\ playbook_rules[k].is_active = Some(TRUE) ) )
    => /\ Get(response).created_tasks = 0
       /\ Get(response).created_alerts = 0
       /\ \A i \in 1..Len(tasks) : tasks[i].rule # None
       /\ \A i \in 1..Len(alerts) : alerts[i].rule # None

----------------------------------------------------------------------------
(* ai_scoring.py: generate_ai_insights *)

LOOKBACK_DAYS_DEFAULT == 30

\* The attributes of models.Account that are columns.
AccountColumns ==
    {"id", "workspace_id", "name", "domain", "owner", "country", "industry", "stage",
     "intent_score", "fit_score", "engagement_score", "predictive_score",
     "total_score", "buyer_stage", "last_event_at", "last_source", "created_at",
     "updated_at"}

_classify_lead_quality(score) ==
    IF score >= Pt(80, 0) THEN "Very High"
    ELSE IF score >= Pt(60, 0) THEN "High"
    ELSE IF score >= Pt(30, 0) THEN "Medium"
    ELSE IF score > 0 THEN "Low"
    ELSE "Cold"

\* In hundredths: round(0.05 + 0.8 * (score / 100.0), 2).  A score in quarter
\* points gives 5 + score / 5 hundredths, which is never half-way.
_estimate_conversion_probability(score) ==
    IF score <= 0 THEN 5
    ELSE IF score >= Pt(100, 0) THEN 85
    ELSE 5 + (2 * score + 5) \div 10

\* evs: the rows read, oldest first (the clock counts whole days)
_estimate_buying_timeline(evs) ==
    IF evs = <<>> THEN "Unknown"
    ELSE LET last == Get(evs[Len(evs)].created_at)
             days == now - last
         IN  IF days <= 3 THEN "0-2 weeks"
             ELSE IF days <= 14 THEN "2-4 weeks"
             ELSE IF days <= 30 THEN "1-2 months"
             ELSE "2+ months"

\* The keys of the counts dict, and the count of a key.
_aggregate_channels(evs) ==
    {Lower(IF TruthyStr(evs[i].source) THEN Get(evs[i].source) ELSE "unknown") :
        i \in 1..Len(evs)}

\* The Event query: account_id and created_at >= since, oldest first.
InsightEvents(account_id) ==
    SelectSeq(events, LAMBDA e : /\ e.account_id = Some(account_id)
                                 /\ Get(e.created_at) >= now - LOOKBACK_DAYS_DEFAULT)

\* What the narrative collaborator is at the call: the library is missing,
\* no API key is set, the call raises, or it answers.
Collaborators == {"no library", "no api key", "raises", "answers"}

\* The function's outcome: what it raised, the account row it read and what
\* it returned.
generate_ai_insights(account_id, collaborator) ==
    LET account == IF account_id \in DOMAIN accounts
                      THEN Some(accounts[account_id]) ELSE None
        evs == InsightEvents(account_id)
        total_score == OrZero(Get(account).total_score)
        lead_quality == _classify_lead_quality(total_score)
        fallback_summary ==
            [text |-> "fallback", account_name |-> Get(account).name,
             lead_quality |-> lead_quality, total_score |-> total_score,
             channels |-> _aggregate_channels(evs),
             conversion_probability |-> _estimate_conversion_probability(total_score),
             buying_timeline |-> _estimate_buying_timeline(evs)]
        urgency == IF total_score >= Pt(80, 0) THEN "Very High"
                   ELSE IF total_score >= Pt(60, 0) THEN "High"
                   ELSE IF total_score <= Pt(10, 0) THEN "Low"
                   ELSE "Normal"
        red_flags ==
            (IF Len(evs) = 0 THEN <<"No recent activity in the last 30 days.">>
             ELSE IF now - Get(evs[Len(evs)].created_at) > 21
                 THEN <<"Last activity more than 3 weeks ago.">>
             ELSE <<>>)
            \o (IF Lower(IF TruthyStr(Get(account).stage) THEN Get(Get(account).stage)
                                                         ELSE "")
                      \in {"closed_lost", "churned"}
                   THEN <<"Marked as closed-lost / churned in CRM.">> ELSE <<>>)
        priority_score == IF total_score \div 4 < 100 THEN total_score \div 4 ELSE 100
        summary_text == IF collaborator = "answers" THEN [text |-> "narrative"]
                        ELSE fallback_summary
    IN  IF account = None
           THEN [raised |-> "no", account |-> None, events |-> <<>>,
                 ret |-> [error |-> "account_not_found"]]
        ELSE IF "city" \notin AccountColumns
           THEN [raised |-> "AttributeError", account |-> account, events |-> evs]
        ELSE [raised |-> "no", account |-> account, events |-> evs,
              ret |-> [summary |-> summary_text, lead_quality |-> lead_quality,
                       red_flags |-> red_flags, priority_score |-> priority_score,
                       urgency |-> urgency]]

\* GET /insights/next-best-actions/{account_id}
next_best_actions(account_id, collaborator) ==
    LET out == generate_ai_insights(account_id, collaborator)
    IN  /\ call' = Some([fn |-> "generate_ai_insights", account_id |-> account_id,
                         collaborator |-> collaborator, out |-> out])
        /\ response' = IF out.raised # "no" THEN ServerError
                       ELSE Some([status |-> 200, body |-> out.ret])
        /\ UNCHANGED <<accounts, events, anon_visits, now, sessions, workflow>>

\* An accounts row with the columns the function reads.
InsightAccount(id, workspace_id, total_score, stage) ==
    [Account(Some(0)) EXCEPT !.total_score = total_score]
    @@ [id |-> id, workspace_id |-> workspace_id, name |-> "Acme", industry |-> None,
        country |-> None, stage |-> stage]

\* n stored events of an account, the latest `age` days before the report
InsightEventRows(account_id, n, age) ==
    [i \in 1..n |->
        AttrRow([event_type |-> "pageview",
                 source |-> IF i = 1 THEN Some("Email") ELSE None,
                 value |-> None, event_metadata |-> None],
                account_id, SegToday - age - (n - i), i)
        @@ [workspace_id |-> accounts[account_id].workspace_id]]

InsightInit ==
    /\ accounts \in
         { [a \in AccountIds |->
               IF a = "a1" THEN InsightAccount(a, w, t, g)
               ELSE InsightAccount(a, DEFAULT_WORKSPACE_ID, Some(0), None)] :
             w \in {DEFAULT_WORKSPACE_ID, "other"},
             t \in {None, Some(Pt(10, 1)), Some(Pt(60, 0)), Some(Pt(80, 0))},
             g \in {None, Some("churned")} }
    /\ events \in { InsightEventRows("a1", n, age) :
                      n \in 0..MaxEvents, age \in {3, 22, 30} }
    /\ anon_visits = <<>>
    /\ tasks = <<>>
    /\ alerts = <<>>
    /\ playbook_rules = <<>>
    /\ external_object_map = <<>>
    /\ now = SegToday
    /\ call = None
    /\ response = None
    /\ sessions = Idle

\* The request writes nothing: a behaviour is one request on one database.
InsightNext ==
    /\ response = None
    /\ \E a \in AccountIds \cup {GhostId}, c \in Collaborators : next_best_actions(a, c)

InsightSpec == InsightInit /\ [][InsightNext]_vars

\* The latest call was generate_ai_insights.
Insighted == call # None /\ Get(call).fn = "generate_ai_insights"

\* C24 (as claimed): for an existing account generate_ai_insights raises
\* nothing and returns a summary, which is the fallback text unless the
\* collaborator answered.
C24_AlwaysSummary ==
    (Insighted /\ Get(call).account_id \in DOMAIN accounts) =>
        /\ Get(call).out.raised = "no"
        /\ Get(response).status = 200
        /\ "summary" \in DOMAIN Get(call).out.ret
        /\ Get(call).collaborator # "answers" =>
              Get(call).out.ret.summary.text = "fallback"

\* C25 (as claimed): the account row and the event rows generate_ai_insights
\* reads are rows of the caller's workspace, and a request for an account of
\* another workspace is answered as for one that does not exist.
C25_ReadsFilteredByWorkspace ==
    Insighted =>
        LET out == Get(call).out
        IN  /\ out.account # None =>
                  Get(out.account).workspace_id = DEFAULT_WORKSPACE_ID
            /\ \A i \in 1..Len(out.events) :
                  out.events[i].workspace_id = DEFAULT_WORKSPACE_ID
            /\ ( /\ Get(call).account_id \in DOMAIN accounts
                 /\ accounts[Get(call).account_id].workspace_id # DEFAULT_WORKSPACE_ID )
               => /\ out.raised = "no"
                  /\ out.ret = [error |-> "account_not_found"]

----------------------------------------------------------------------------
(* main.py: crm_upsert_account and delete_account *)

MaxMappings == 3

\* An external_object_map row.
ExternalObjectMap(workspace_id, provider, external_id, internal_id) ==
    [workspace_id |-> workspace_id, provider |-> provider,
     external_object_type |-> "account", external_id |-> external_id,
     internal_object_type |-> "account", internal_id |-> internal_id]

\* The rows the mapping query selects; .first() returns one of them (the
\* query has no ORDER BY) or None.
MappingQuery(workspace_id, provider, external_id) ==
    {i \in 1..Len(external_object_map) :
        /\ external_object_map[i].workspace_id = workspace_id
        /\ external_object_map[i].provider = provider
        /\ external_object_map[i].external_object_type = "account"
        /\ external_object_map[i].external_id = external_id}

\* Account(workspace_id=, name=, domain=, ...) after the flush, which gives
\* the row its id and the column defaults.
CrmAccount(id, workspace_id, payload) ==
    Account(Some(0)) @@ [id |-> id, workspace_id |-> workspace_id, name |-> payload.name]

UpsertCall(provider, payload, mapping, created, account_id) ==
    Some([fn |-> "crm_upsert_account", provider |-> provider, payload |-> payload,
          mapping |-> mapping, created |-> created, account_id |-> account_id])

\* The branch that creates the account and a mapping to it.  The id is a new
\* uuid: ids are numbered in the order they are given out (one per mapping
\* row, and no mapping row is ever deleted).
crm_upsert_create(provider, payload, mapping) ==
    LET workspace_id == DEFAULT_WORKSPACE_ID
        id == Len(external_object_map) + 1
        account == CrmAccount(id, workspace_id, payload)
    IN  /\ Len(external_object_map) < MaxMappings
        /\ accounts' = [a \in DOMAIN accounts \cup {id} |->
                           IF a = id THEN account ELSE accounts[a]]
        /\ external_object_map' =
               Append(external_object_map,
                      ExternalObjectMap(workspace_id, provider, payload.external_id, id))
        /\ call' = UpsertCall(provider, payload, mapping, TRUE, id)
        /\ response' = Some([status |-> 200, account |-> account])

\* The branch that updates the mapped account (`if payload.name:`).
crm_upsert_update(provider, payload, mapping) ==
    LET id == external_object_map[Get(mapping)].internal_id
        account == [accounts[id] EXCEPT !.name = IF payload.name # "" THEN payload.name
                                                                     ELSE @]
    IN  /\ accounts' = [accounts EXCEPT ![id] = account]
        /\ call' = UpsertCall(provider, payload, mapping, FALSE, id)
        /\ response' = Some([status |-> 200, account |-> account])
        /\ UNCHANGED external_object_map

\* POST /crm/{provider}/accounts/upsert
crm_upsert_account(provider, payload) ==
    LET workspace_id == DEFAULT_WORKSPACE_ID
        hit == MappingQuery(workspace_id, provider, payload.external_id)
    IN  /\ \E mapping \in (IF hit = {} THEN {None} ELSE {Some(i) : i \in hit}) :
              LET stale ==
                      /\ mapping # None
                      /\ ~ ( /\ external_object_map[Get(mapping)].internal_id
                                  \in DOMAIN accounts
                             /\ accounts[external_object_map[Get(mapping)].internal_id]
                                  .workspace_id = workspace_id )
              IN  IF mapping = None \/ stale
                     THEN crm_upsert_create(provider, payload, mapping)
                     ELSE crm_upsert_update(provider, payload, mapping)
        /\ UNCHANGED <<events, anon_visits, now, sessions, tasks, alerts, playbook_rules>>

\* DELETE /accounts/{account_id}.  The delete cascades to the account's
\* events, tasks, alerts and visits; external_object_map has no relationship
\* to accounts and keeps its rows.
delete_account(account_id) ==
    LET Others(table, key) == SelectSeq(table, LAMBDA r : r.account_id # key)
    IN  /\ call' = Some([fn |-> "delete_account", account_id |-> account_id])
        /\ IF account_id \in DOMAIN accounts
              /\ accounts[account_id].workspace_id = DEFAULT_WORKSPACE_ID
              THEN /\ accounts' = [a \in DOMAIN accounts \ {account_id} |-> accounts[a]]
                   /\ events' = Others(events, Some(account_id))
                   /\ anon_visits' = Others(anon_visits, Some(account_id))
                   /\ tasks' = Others(tasks, account_id)
                   /\ alerts' = Others(alerts, account_id)
                   /\ response' = Some([status |-> 204])
              ELSE /\ response' = NotFound
                   /\ UNCHANGED <<accounts, events, anon_visits, tasks, alerts>>
        /\ UNCHANGED <<now, sessions, playbook_rules, external_object_map>>

CrmProviders == {"hubspot", "salesforce"}

CRMAccountUpsert(external_id, name) == [external_id |-> external_id, name |-> name]

CrmPayloads == {CRMAccountUpsert(x, n) : x \in {"x1", "x2"}, n \in {"Acme", "Acme Inc"}}

CrmInit ==
    /\ accounts = <<>>
    /\ events = <<>>
    /\ anon_visits = <<>>
    /\ tasks = <<>>
    /\ alerts = <<>>
    /\ playbook_rules = <<>>
    /\ external_object_map = <<>>
    /\ now = 1
    /\ call = None
    /\ response = None
    /\ sessions = Idle

CrmNext ==
    \/ \E provider \in CrmProviders, payload \in CrmPayloads :
          crm_upsert_account(provider, payload)
    \/ \E a \in 1..MaxMappings : delete_account(a)

CrmSpec == CrmInit /\ [][CrmNext]_vars

\* No two external_object_map rows have the same workspace, provider, object
\* type and external id.
UniqueMappings ==
    \A i, j \in 1..Len(external_object_map) :
        ( /\ external_object_map[i].workspace_id = external_object_map[j].workspace_id
          /\ external_object_map[i].provider = external_object_map[j].provider
          /\ external_object_map[i].external_object_type
               = external_object_map[j].external_object_type
          /\ external_object_map[i].external_id = external_object_map[j].external_id )
        => i = j

\* C29 (as claimed): after every request at most one mapping exists per
\* (workspace, provider, "account", external_id), and an upsert that comes
\* right after an upsert of the same provider and external_id creates no
\* account.
C29_OneAccountPerExternalId ==
    [][/\ UniqueMappings'
       /\ ( /\ call # None
            /\ Get(call).fn = "crm_upsert_account"
            /\ Get(call').fn = "crm_upsert_account"
            /\ Get(call').provider = Get(call).provider
            /\ Get(call').payload.external_id = Get(call).payload.external_id )
          => ~Get(call').created]_vars

----------------------------------------------------------------------------
(* Properties of sequential ingestion (Spec) *)

\* The latest score_event call returned (did not raise).
Returned == call # None /\ Get(call).fn = "score_event" /\ Get(call).ret.raised = "no"

CallAccount == Get(Get(call).account)
CallEvent == Get(call).event
CallRet == Get(call).ret

\* C1: score_event never changes fit_score: the fit_score of the returned
\* totals is the account's fit_score before the call (0 when unset), and no
\* request changes the fit_score of a stored account.
C1_FitInvariance ==
    [][/\ (call' # None /\ Get(call').ret.raised = "no")
            => Get(call').ret.totals.fit_score = OrZero(Get(Get(call').account).fit_score)
       /\ \A a \in DOMAIN accounts :
            a \in DOMAIN accounts'
            /\ OrZero(accounts'[a].fit_score) = OrZero(accounts[a].fit_score)]_vars

\* a second event was scored for an account whose fit_score is non-zero
C1_Witness ==
    /\ Returned
    /\ Len(events) = 2
    /\ CallAccount.fit_score = Some(Pt(20, 0))
    /\ CallAccount.intent_score # Some(0)
    /\ CallRet.totals.fit_score = Pt(20, 0)

\* C2: the returned total_score is the sum of the four returned scores,
\* whatever total_score the account held, and every account that had an event
\* scored stores total = intent + engagement + fit + predictive.
C2_TotalIsSum ==
    /\ Returned =>
         CallRet.totals.total_score =
             CallRet.totals.intent_score + CallRet.totals.engagement_score
             + CallRet.totals.fit_score + CallRet.totals.predictive_score
    /\ \A a \in DOMAIN accounts :
         HasEvent(a) =>
             Get(accounts[a].total_score) =
                 Get(accounts[a].intent_score) + Get(accounts[a].engagement_score)
                 + Get(accounts[a].fit_score) + Get(accounts[a].predictive_score)

\* the account held a total_score (0) that was not the sum of its scores
\* (fit_score 20) when the call was made
C2_Witness ==
    /\ Returned
    /\ CallAccount.total_score = Some(0)
    /\ CallAccount.fit_score = Some(Pt(20, 0))
    /\ CallRet.totals.total_score > Pt(20, 0)

\* C3: no request decreases intent_score, engagement_score, predictive_score
\* or total_score of an account.
C3_Monotonic ==
    [][\A a \in DOMAIN accounts :
         /\ a \in DOMAIN accounts'
         /\ OrZero(accounts'[a].intent_score) >= OrZero(accounts[a].intent_score)
         /\ OrZero(accounts'[a].engagement_score) >= OrZero(accounts[a].engagement_score)
         /\ OrZero(accounts'[a].predictive_score) >= OrZero(accounts[a].predictive_score)
         /\ OrZero(accounts'[a].total_score) >= OrZero(accounts[a].total_score)]_vars

\* two events were scored for one account, the later one with negative revenue
C3_Witness ==
    /\ Returned
    /\ Len(events) = 2
    /\ events[1].account_id = events[2].account_id
    /\ CallEvent.value = Some(-50)
    /\ CallRet.totals.intent_score > OrZero(CallAccount.intent_score)

\* C4 (as claimed): every account that had an event scored stores the
\* buyer_stage of its stored total_score.
C4_StageNeverStale ==
    \A a \in DOMAIN accounts :
        HasEvent(a) =>
            accounts[a].buyer_stage =
                Some(_buyer_stage_from_scores(Get(accounts[a].intent_score),
                                              Get(accounts[a].engagement_score),
                                              Get(accounts[a].total_score)))

\* C6 (as claimed): a score_event call with no account raises nothing and
\* returns the event's contributions; the request does not fail.
C6_NullAccountTolerated ==
    (call # None /\ Get(call).account = None) =>
        /\ CallRet.raised = "no"
        /\ CallRet.event_intent = _event_intent_weight(CallEvent)
        /\ CallRet.event_engagement = _event_engagement_weight(CallEvent)
        /\ Get(response).status = 200

\* C8: a score_event call adds the event's intent and engagement contributions
\* to intent_score and engagement_score and half their sum to
\* predictive_score, and the scored account stores the result.
C8_PredictiveHalfOfContributions ==
    Returned =>
        LET b == Bases(CallAccount)
            t == CallRet.totals
            row == accounts[Get(CallEvent.account_id)]
        IN  /\ t.intent_score = b.intent + CallRet.event_intent
            /\ t.engagement_score = b.engagement + CallRet.event_engagement
            /\ 2 * (t.predictive_score - b.predictive)
                   = CallRet.event_intent + CallRet.event_engagement
            /\ row.intent_score = Some(t.intent_score)
            /\ row.engagement_score = Some(t.engagement_score)
            /\ row.predictive_score = Some(t.predictive_score)

\* a second event was scored for an account: the base scores were not zero
C8_Witness ==
    /\ Returned
    /\ OrZero(CallAccount.predictive_score) > 0
    /\ CallRet.event_intent = Pt(10, 0)
    /\ CallRet.totals.predictive_score > OrZero(CallAccount.predictive_score)

\* C9 (as claimed): a positive revenue raises both contributions above those
\* of the same event without revenue; a negative one leaves them there.
C9_RevenueBlended ==
    (Returned /\ CallEvent.value # None) =>
        LET free == score_event(Get(call).account, [CallEvent EXCEPT !.value = None])
        IN  IF Get(CallEvent.value) > 0
               THEN /\ CallRet.event_intent > free.event_intent
                    /\ CallRet.event_engagement > free.event_engagement
               ELSE /\ CallRet.event_intent = free.event_intent
                    /\ CallRet.event_engagement = free.event_engagement

\* The accounts that had an event scored and stored through an ingestion
\* endpoint, and the creation time of the latest such event.
LastStoredEvent(a) ==
    events[CHOOSE i \in 1..Len(events) :
              /\ events[i].account_id = Some(a)
              /\ \A j \in 1..Len(events) : events[j].account_id = Some(a) => j <= i]

\* C19: once an event was scored for an account through create_event, track
\* or track_event, the account's last_event_at is not null and is the
\* creation time of the latest event stored for it.
C19_LastEventAtIsLatestEvent ==
    \A a \in DOMAIN accounts :
        HasEvent(a) =>
            /\ accounts[a].last_event_at # None
            /\ accounts[a].last_event_at = LastStoredEvent(a).created_at

\* C23 (as claimed): a request that names an account that does not exist is
\* answered "not found" and stores nothing for it: no visit row and no event
\* row carries the missing account's id.
C23_MissingAccountNotFound ==
    /\ \A i \in 1..Len(anon_visits) : anon_visits[i].account_id # Some(GhostId)
    /\ \A i \in 1..Len(events) : events[i].account_id # Some(GhostId)
    /\ (call # None /\ CallEvent.account_id = Some(GhostId)) => response = NotFound

\* C26 (as claimed): no request changes or removes a stored event, and every
\* event a request stores holds the contributions computed for it as its
\* intent_score and engagement_score.
C26_EventsAppendOnly ==
    [][/\ Len(events') >= Len(events)
       /\ \A i \in 1..Len(events) : events'[i] = events[i]
       /\ \A i \in (Len(events) + 1)..Len(events') :
            /\ events'[i].intent_score = Some(_event_intent_weight(events'[i]))
            /\ events'[i].engagement_score = Some(_event_engagement_weight(events'[i]))]_vars

\* C27 (as claimed): every account's intent_score and engagement_score are
\* the sums of the scores stored on its events, and its predictive_score is
\* half the sum of the two.
C27_AccountIsSumOfEvents ==
    \A a \in DOMAIN accounts :
        /\ OrZero(accounts[a].intent_score) = SumEvents(a, "intent_score", Len(events))
        /\ OrZero(accounts[a].engagement_score)
               = SumEvents(a, "engagement_score", Len(events))
        /\ 2 * OrZero(accounts[a].predictive_score)
               = OrZero(accounts[a].intent_score) + OrZero(accounts[a].engagement_score)

====
